---- MODULE Spec2Model ----
(***************************************************************************)
(* quflow: execution of a Workflow.                                        *)
(*                                                                         *)
(* The model follows src/src/quflow/workflow: Workflow.execute drives      *)
(* DependencyGraph.execute, which peels the dependency DAG layer by layer  *)
(* (topological_sequencer), runs the plain Nodes of a layer one at a time  *)
(* and hands the ParallelNodes of the layer to execute_multiple_nodes,     *)
(* which runs them on a thread pool (and the main-thread node on the       *)
(* coordinator).  Threads are modelled as interleaved steps of the nodes.  *)
(***************************************************************************)
EXTENDS Integers, FiniteSets, Sequences, TLC

\* ---------------------------------------------------------------- bounds
MaxNodes == 3
MaxExecutes == 2
\* longest collection of statuses given to return_most_harsh_status
MaxStatuses == 3
\* operations (writes and reads) done on the channel under test
MaxOps == 7
\* largest maxsize of a bounded MultiItemStorage
MaxQueue == 2
\* largest chunk_size of a MultiReadStrategy
MaxChunk == 2
\* construction calls made on the workflow under construction
MaxCalls == 3
\* Node objects at hand while a workflow is constructed
MaxObjs == 2
\* runs of the wrapped task a PollingTask is followed through
MaxPolls == 3
\* items the routine of a GeneratorFuncTask yields at most
MaxGen == 4
\* largest item waiting in the inbound channel of a task run alone
MaxItem == 2

\* ------------------------------------------------------------- constants
\* ParallelNode._interrupt = None
NoEvent == 0
\* the threading.Event() evaluated once as the default of TaskContext.interrupt
DefaultEvent == 1
\* Python's None, as data and as chunk_size; the items are 1, 2, 3, ...
None == 0
\* what produce_number returns in test_simple_workflow
Answer == 42

\* Status (status.py)
Status == {"PENDING", "RUNNING", "SKIP", "FINISHED", "REJECT", "CRASHED", "STOPPED"}

\* _SEVERITY table (status.py)
SEVERITY_declaration ==
  [s \in Status |->
     CASE s = "PENDING"  -> 0
       [] s = "RUNNING"  -> 1
       [] s = "SKIP"     -> 2
       [] s = "FINISHED" -> 3
       [] s = "REJECT"   -> 4
       [] s = "CRASHED"  -> 5
       [] s = "STOPPED"  -> 6]

SEVERITY ==
  [s \in Status |->
     CASE s = "PENDING"  -> 0
       [] s = "RUNNING"  -> 1
       [] s = "SKIP"     -> 2
       [] s = "FINISHED" -> 3
       [] s = "REJECT"   -> 4
       [] s = "STOPPED"  -> 5
       [] s = "CRASHED"  -> 6]

\* max(iterable, key=...): the first element whose key no later one exceeds
RECURSIVE py_max(_, _)
py_max(best, rest) ==
  IF rest = <<>> THEN best
  ELSE py_max(IF SEVERITY[Head(rest)] > SEVERITY[best] THEN Head(rest) ELSE best,
              Tail(rest))

\* max(statuses, key=lambda x: _SEVERITY.get(x, 1)), statuses in iteration order
return_most_harsh_status(statuses) == py_max(Head(statuses), Tail(statuses))

\* statuses the task of a plain Node is let to return in the model
TaskStatuses == {"FINISHED", "SKIP", "REJECT", "STOPPED"}
\* outcome of Task.run: a returned status, or an exception escaping it
TaskOutcomes == TaskStatuses \cup {"exception"}

VARIABLES
  nodes,               \* node indices of the dependency graph
  isParallel,          \* isinstance(node, ParallelNode)
  run_in_main_thread,  \* ParallelNode.run_in_main_thread
  edges,               \* dependency edges <<a, b>>: a must finish before b
  wfStatus,            \* Workflow.status
  pc,                  \* position of the coordinator inside execute()
  exc,                 \* exception execute() terminated with
  execCount,           \* number of execute() calls so far
  sorterDone,          \* nodes passed to sorter.done
  layer,               \* nodes of the layer yielded last
  todo,                \* plain nodes of the layer still to be run
  nstate,              \* position of each node's run()
  runs,                \* run() invocations of each node in this execute()
  taskResult,          \* what task.run(ctx) of the node returned
  nodeExc,             \* exception the node's run() raised
  interrupt,           \* ParallelNode._interrupt (an event id)
  ctxInterrupt,        \* interrupt of the TaskContext built for the node's task
  isSet,               \* the events that are set
  nextEvent,           \* next fresh event id
  batch,               \* the ParallelNodes given to execute_multiple_nodes
  batchState,          \* none / running / returned / raised
  batchSignal,         \* event created by execute_multiple_nodes
  oldSignals,          \* batch signals of the earlier batches
  pending,             \* exception on its way out of the executor block
  statuses,            \* the statuses given to return_most_harsh_status
  harshest,            \* what return_most_harsh_status returned
  chan,                \* the Channel: storage, read_strategy, write_strategy
  chState,             \* unbuilt / built / rejected (Channel.__init__ raised)
  rd,                  \* position of the reader inside MultiReadStrategy.read
  last,                \* the channel operation completed last
  written,             \* the items given to storage.write, in order
  readLog,             \* the items storage.read returned, in order
  nextItem,            \* the next item the writer produces
  nOps,                \* channel operations begun so far
  task,                \* per node: the task template and what its func returns
  read_channel,        \* per node: Node.read_channel, a channel or None
  write_channel,       \* per node: Node.write_channel, a channel or None
  result_channel,      \* Workflow._result_channel, a channel or None
  result_node,         \* Workflow._result_node, a node or None
  channels,            \* the channels of the workflow
  funcArg,             \* per node: the data its func received last
  result,              \* what Workflow.result returned last, and in which execute
  name,                \* per Node object: Node.name
  dep,                 \* DependencyGraph.graph: payloads by index, edge list
  df,                  \* DataFlowGraph.graph: payloads by index, edge list
  depNames,            \* node_name_to_node of the dependency graph's handler
  dfNames,             \* node_name_to_node of the dataflow graph's handler
  appearances,         \* per Node object: Node.appearances, graph type to index
  call,                \* the construction call made last and how it ended
  nCalls,              \* construction calls made so far
  tk,                  \* the task run alone, or the task a PollingTask wraps
  stop,                \* stop_callable of the PollingTask
  sig,                 \* ctx.interrupt.is_set()
  sig0,                \* ctx.interrupt.is_set() when run(ctx) was entered
  ctxStatus,           \* ctx.status
  tpc,                 \* position inside run(ctx)
  ret,                 \* what run(ctx) returned
  calls,               \* runs of the wrapped task so far
  waits,               \* ctx.interrupt.wait calls so far
  inbox,               \* the item ctx.read_callable() returns
  genLen,              \* items the routine yields before it is exhausted
  req,                 \* items requested from the routine so far
  out,                 \* the items given to ctx.write_callable, in order
  reqAfterSet          \* items requested while the signal was set

\* state of Workflow.execute
wfVars == <<nodes, isParallel, run_in_main_thread, edges, wfStatus, pc, exc,
            execCount, sorterDone, layer, todo, nstate, runs, taskResult,
            nodeExc, interrupt, ctxInterrupt, isSet, nextEvent, batch,
            batchState, batchSignal, oldSignals, pending>>
\* state of the status aggregation taken alone
stVars == <<statuses, harshest>>
\* state of a channel, its writer and its reader
chVars == <<chan, chState, rd, last, written, readLog, nextItem, nOps>>
\* the tasks and channels of a pipeline
pipeVars == <<task, read_channel, write_channel, result_channel, result_node, channels,
              funcArg, result>>
\* what connecting two nodes leaves alone in a workflow under construction
buildVarsKept == <<name, depNames, dfNames, appearances>>
\* the two graphs of a workflow under construction
buildVars == <<name, dep, df, depNames, dfNames, appearances, call, nCalls>>
\* a task run on its own context
tkVars == <<tk, stop, sig, sig0, ctxStatus, tpc, ret, calls, waits, inbox, genLen, req,
            out, reqAfterSet>>
\* what Workflow.execute leaves alone
otherVars == <<stVars, chVars, pipeVars, buildVars, tkVars>>

vars == <<wfVars, otherVars>>

graphVars == <<nodes, isParallel, run_in_main_thread, edges>>
ctxVars == <<ctxInterrupt>>

\* --------------------------------------------------------------- helpers
Pred(n) == {a \in nodes : <<a, n>> \in edges}

Finished(n) == nstate[n] \in {"returned", "raised"}
Started(n) == nstate[n] \notin {"idle", "submitted"}
InRun(n) == nstate[n] \in {"running", "try", "except"}

\* Node.status: a read-only property (node.py), whatever the node ran
NodeStatus(n) == "PENDING"

\* rx.TopologicalSorter.get_ready: the nodes all of whose predecessors are done
get_ready_any(done) == nodes \ done
get_ready(done) == {n \in nodes \ done : Pred(n) \subseteq done}

\* split_to_non_parallel_and_parallel
non_parallel_nodes_none(ns) == {}
non_parallel_nodes(ns) == {n \in ns : ~isParallel[n]}
parallel_nodes(ns) == {n \in ns : isParallel[n]}

\* interrupt of the context create_context builds: the TaskContext default for
\* a Node; for a ParallelNode the node's own signal, created when still None
create_context_default(n) == DefaultEvent
create_context(n) ==
  IF isParallel[n]
    THEN IF interrupt[n] = NoEvent THEN nextEvent ELSE interrupt[n]
    ELSE DefaultEvent

\* ParallelNode.load_interrupt, applied to every node of ns
load_interrupt_skip(intr, ns, ev) == intr
load_interrupt(intr, ns, ev) ==
  [n \in DOMAIN intr |-> IF n \in ns THEN ev ELSE intr[n]]

\* assert len(main_thread_nodes) <= 1
main_thread_assert_off(mains) == TRUE
main_thread_assert(mains) == Cardinality(mains) <= 1

\* ThreadPoolExecutor(max_workers=len(background_nodes)) needs max_workers > 0
executor_created(bgs) == Cardinality(bgs) > 0

\* main_thread_nodes[0] if main_thread_nodes else None
MainOf(ns) ==
  LET mains == {n \in ns : run_in_main_thread[n]}
  IN  IF mains = {} THEN 0 ELSE CHOOSE m \in mains : \A k \in mains : m <= k

Background(ns) == {n \in ns : ~run_in_main_thread[n]}

\* leaving the with-block: ThreadPoolExecutor.__exit__ is shutdown(wait=True)
executor_shutdown_nowait(bgs) == TRUE
executor_shutdown_wait(bgs) == \A b \in bgs : Finished(b)

\* for future in future_tasks: future.result()
future_results_ignored(bgs) == "none"
future_results(bgs) ==
  LET failed == {b \in bgs : nstate[b] = "raised"}
  IN  IF failed = {} THEN "none"
      ELSE nodeExc[CHOOSE b \in failed : \A c \in failed : b <= c]

\* ------------------------------------------------- storage and channel
\* SingleItemStorage(): deque(maxlen=1)
SingleItemStorage == [type |-> "SingleItemStorage", maxsize |-> 1, items |-> <<>>]
\* MultiItemStorage(maxsize): Queue(maxsize), unbounded when maxsize is 0
MultiItemStorage(maxsize) ==
  [type |-> "MultiItemStorage", maxsize |-> maxsize, items |-> <<>>]

SingleReadStrategy == [type |-> "SingleReadStrategy", chunk_size |-> None]
MultiReadStrategy(chunk_size) ==
  [type |-> "MultiReadStrategy", chunk_size |-> chunk_size]
SingleWriteStrategy == [type |-> "SingleWriteStrategy"]
MultiWriteStrategy == [type |-> "MultiWriteStrategy"]

\* deque.append on a deque with maxlen: a full deque drops its oldest item
deque_append_keep(items, maxlen, x) ==
  IF Len(items) >= maxlen THEN items ELSE Append(items, x)
deque_append(items, maxlen, x) ==
  IF Len(items) >= maxlen THEN Append(Tail(items), x) ELSE Append(items, x)

\* Queue.full(): 0 < maxsize <= qsize
queue_full_never(st) == FALSE
queue_full(st) == st.maxsize > 0 /\ Len(st.items) >= st.maxsize

\* SingleItemStorage.write: deque.append unless data is None
SingleItemStorage_write_unchecked(st, data) ==
  [st |-> [st EXCEPT !.items = deque_append(st.items, st.maxsize, data)],
   err |-> "none"]
SingleItemStorage_write(st, data) ==
  IF data = None THEN [st |-> st, err |-> "none"]
  ELSE [st |-> [st EXCEPT !.items = deque_append(st.items, st.maxsize, data)],
        err |-> "none"]

\* MultiItemStorage.write: Queue.put_nowait unless data is None; it raises
\* queue.Full when the queue is full
MultiItemStorage_write(st, data) ==
  IF data = None THEN [st |-> st, err |-> "none"]
  ELSE IF queue_full(st) THEN [st |-> st, err |-> "Full"]
  ELSE [st |-> [st EXCEPT !.items = Append(st.items, data)], err |-> "none"]

\* storage.write(data) of either kind of storage
storage_write(st, data) ==
  IF st.type = "SingleItemStorage" THEN SingleItemStorage_write(st, data)
  ELSE MultiItemStorage_write(st, data)

\* SingleItemStorage.read: deque.pop() takes the newest item; IndexError is
\* caught and None returned
SingleItemStorage_read(st) ==
  IF st.items = <<>> THEN [st |-> st, val |-> None, err |-> "none"]
  ELSE [st |-> [st EXCEPT !.items = SubSeq(st.items, 1, Len(st.items) - 1)],
        val |-> st.items[Len(st.items)], err |-> "none"]

\* MultiItemStorage.read: Queue.get_nowait() takes the oldest item; queue.Empty
\* is caught and None returned
MultiItemStorage_read_newest(st) ==
  IF st.items = <<>> THEN [st |-> st, val |-> None, err |-> "none"]
  ELSE [st |-> [st EXCEPT !.items = SubSeq(st.items, 1, Len(st.items) - 1)],
        val |-> st.items[Len(st.items)], err |-> "none"]
MultiItemStorage_read_uncaught(st) ==
  IF st.items = <<>> THEN [st |-> st, val |-> None, err |-> "Empty"]
  ELSE [st |-> [st EXCEPT !.items = Tail(st.items)],
        val |-> Head(st.items), err |-> "none"]
MultiItemStorage_read(st) ==
  IF st.items = <<>> THEN [st |-> st, val |-> None, err |-> "none"]
  ELSE [st |-> [st EXCEPT !.items = Tail(st.items)],
        val |-> Head(st.items), err |-> "none"]

\* storage.read() of either kind of storage
storage_read(st) ==
  IF st.type = "SingleItemStorage" THEN SingleItemStorage_read(st)
  ELSE MultiItemStorage_read(st)

\* StorageBase.__len__ and is_empty
storage_len(st) == Len(st.items)
is_empty(st) == Len(st.items) = 0

\* ReadStrategy.validate: TRUE when no TypeError is raised
read_validate_any(rs, st) == TRUE
read_validate(rs, st) ==
  IF rs.type = "SingleReadStrategy"
    THEN st.type \in {"SingleItemStorage", "MultiItemStorage"}
    ELSE st.type = "MultiItemStorage"

\* WriteStrategy.validate: TRUE when no TypeError is raised
write_validate(ws, st) ==
  IF ws.type = "SingleWriteStrategy"
    THEN st.type \in {"SingleItemStorage", "MultiItemStorage"}
    ELSE st.type = "MultiItemStorage"

\* MultiReadStrategy.read: amount_to_read
amount_to_read_all(chunk_size, len) == len
amount_to_read(chunk_size, len) ==
  IF chunk_size = None THEN len
  ELSE IF chunk_size < len THEN chunk_size ELSE len

\* the Channel(storage, read_strategy, write_strategy) calls of the model
Storages == {SingleItemStorage} \cup {MultiItemStorage(m) : m \in 0..MaxQueue}
ReadStrategies ==
  {SingleReadStrategy} \cup {MultiReadStrategy(c) : c \in {None} \cup (1..MaxChunk)}
WriteStrategies == {SingleWriteStrategy, MultiWriteStrategy}

NoOp ==
  [op |-> "none", data |-> None, missing |-> FALSE, err |-> "none",
   before |-> <<>>, after |-> <<>>, val |-> None, vals |-> <<>>]

ReaderIdle == [active |-> FALSE, amount |-> 0, buf |-> <<>>, before |-> <<>>]

\* create_single_item_channel()
create_single_item_channel ==
  [storage |-> SingleItemStorage, read_strategy |-> SingleReadStrategy,
   write_strategy |-> SingleWriteStrategy]

\* no channel is under test
ChannelIdle ==
  /\ chan = create_single_item_channel
  /\ chState = "unbuilt"
  /\ rd = ReaderIdle
  /\ last = NoOp
  /\ written = <<>>
  /\ readLog = <<>>
  /\ nextItem = 1
  /\ nOps = 0

\* no tasks and no channels are attached to the nodes
PipeIdle ==
  /\ task = <<>>
  /\ read_channel = <<>>
  /\ write_channel = <<>>
  /\ result_channel = None
  /\ result_node = None
  /\ channels = <<>>
  /\ funcArg = <<>>
  /\ result = [at |-> 0, val |-> None]

\* no construction call was made yet
NoCall ==
  [op |-> "none", a |-> None, b |-> None, ref |-> "", new |-> "", ch |-> None,
   err |-> "none"]

\* no workflow is under construction
BuildIdle ==
  /\ name = <<>>
  /\ dep = [nodes |-> <<>>, edges |-> <<>>]
  /\ df = [nodes |-> <<>>, edges |-> <<>>]
  /\ depNames = <<>>
  /\ dfNames = <<>>
  /\ appearances = <<>>
  /\ call = NoCall
  /\ nCalls = 0

\* a task that is run by nothing: a FuncTask-like task returning FINISHED
NoTask == [kind |-> "Task", status |-> "FINISHED", raises |-> FALSE,
           sets |-> "untouched"]

\* no task is run on its own
TaskIdle ==
  /\ tk = NoTask
  /\ stop = [never |-> TRUE, after |-> 0]
  /\ sig = FALSE
  /\ sig0 = FALSE
  /\ ctxStatus = "RUNNING"
  /\ tpc = "idle"
  /\ ret = "none"
  /\ calls = 0
  /\ waits = 0
  /\ inbox = None
  /\ genLen = 0
  /\ req = 0
  /\ out = <<>>
  /\ reqAfterSet = 0

\* ------------------------------------------------------------------ Init
\* no collection of statuses is being aggregated
StatusIdle ==
  /\ statuses = <<>>
  /\ harshest = "none"

\* a workflow with nodes and dependencies, before its first execute()
WorkflowInit ==
  /\ \E k \in 0..MaxNodes :
       /\ nodes = 1..k
       /\ isParallel \in [1..k -> BOOLEAN]
       /\ run_in_main_thread \in [1..k -> BOOLEAN]
       /\ \A n \in 1..k : run_in_main_thread[n] => isParallel[n]
       /\ edges \in SUBSET {<<a, b>> \in (1..k) \X (1..k) : a < b}
       /\ nstate = [n \in 1..k |-> "idle"]
       /\ runs = [n \in 1..k |-> 0]
       /\ taskResult = [n \in 1..k |-> "none"]
       /\ nodeExc = [n \in 1..k |-> "none"]
       /\ interrupt = [n \in 1..k |-> NoEvent]
       /\ ctxInterrupt = [n \in 1..k |-> NoEvent]
  /\ wfStatus = "PENDING"
  /\ pc = "idle"
  /\ exc = "none"
  /\ execCount = 0
  /\ sorterDone = {}
  /\ layer = {}
  /\ todo = {}
  /\ isSet = {}
  /\ nextEvent = DefaultEvent + 1
  /\ batch = {}
  /\ batchState = "none"
  /\ batchSignal = NoEvent
  /\ oldSignals = {}
  /\ pending = "none"

Init ==
  /\ WorkflowInit
  /\ StatusIdle
  /\ ChannelIdle
  /\ PipeIdle
  /\ BuildIdle
  /\ TaskIdle

\* --------------------------------------------------------------- actions
\* Workflow.execute, up to the call of dependency_graph.execute()
execute_running_first ==
  /\ pc \in {"idle", "done", "raised"}
  /\ execCount < MaxExecutes
  /\ execCount' = execCount + 1
  /\ nstate' = [n \in nodes |-> "idle"]
  /\ runs' = [n \in nodes |-> 0]
  /\ taskResult' = [n \in nodes |-> "none"]
  /\ nodeExc' = [n \in nodes |-> "none"]
  /\ ctxInterrupt' = [n \in nodes |-> NoEvent]
  /\ sorterDone' = {}
  /\ layer' = {}
  /\ todo' = {}
  /\ batch' = {}
  /\ batchState' = "none"
  /\ pending' = "none"
  /\ wfStatus' = "RUNNING"
  /\ IF nodes = {}
       THEN /\ pc' = "raised"
            /\ exc' = "ValueError: no nodes"
       ELSE /\ pc' = "seq"
            /\ exc' = "none"
  /\ UNCHANGED <<otherVars, graphVars, interrupt, isSet, nextEvent, batchSignal, oldSignals>>

execute ==
  /\ pc \in {"idle", "done", "raised"}
  /\ execCount < MaxExecutes
  /\ execCount' = execCount + 1
  /\ nstate' = [n \in nodes |-> "idle"]
  /\ runs' = [n \in nodes |-> 0]
  /\ taskResult' = [n \in nodes |-> "none"]
  /\ nodeExc' = [n \in nodes |-> "none"]
  /\ ctxInterrupt' = [n \in nodes |-> NoEvent]
  /\ sorterDone' = {}
  /\ layer' = {}
  /\ todo' = {}
  /\ batch' = {}
  /\ batchState' = "none"
  /\ pending' = "none"
  /\ IF nodes = {}
       THEN \* validate(): ValueError, status untouched
            /\ pc' = "raised"
            /\ exc' = "ValueError: no nodes"
            /\ wfStatus' = wfStatus
       ELSE /\ pc' = "seq"
            /\ exc' = "none"
            /\ wfStatus' = "RUNNING"
  /\ UNCHANGED <<otherVars, graphVars, interrupt, isSet, nextEvent, batchSignal, oldSignals>>

\* topological_sequencer: sorter.is_active(), get_ready(), yield, split
sequencer_yield ==
  /\ pc = "seq"
  /\ sorterDone # nodes
  /\ layer' = get_ready(sorterDone)
  /\ todo' = non_parallel_nodes(get_ready(sorterDone))
  /\ pc' = "plain"
  /\ UNCHANGED <<otherVars, graphVars, ctxVars, wfStatus, exc, execCount, sorterDone, nstate, runs,
                 taskResult, nodeExc, interrupt, isSet, nextEvent, batch,
                 batchState, batchSignal, oldSignals, pending>>

\* Workflow.execute after dependency_graph.execute() returned
aggregate ==
  /\ pc = "seq"
  /\ sorterDone = nodes
  /\ wfStatus' = return_most_harsh_status(
                    [n \in 1..Cardinality(nodes) |-> NodeStatus(n)])
  /\ pc' = "done"
  /\ UNCHANGED <<otherVars, graphVars, ctxVars, exc, execCount, sorterDone, layer, todo, nstate,
                 runs, taskResult, nodeExc, interrupt, isSet, nextEvent, batch,
                 batchState, batchSignal, oldSignals, pending>>

\* execute_non_parallel_nodes: node.run() is entered for the next plain node
NodeRunBegin(n) ==
  /\ pc = "plain"
  /\ n \in todo
  /\ todo' = todo \ {n}
  /\ nstate' = [nstate EXCEPT ![n] = "running"]
  /\ runs' = [runs EXCEPT ![n] = @ + 1]
  /\ ctxInterrupt' = [ctxInterrupt EXCEPT ![n] = create_context(n)]
  /\ pc' = "in_node"
  /\ UNCHANGED <<otherVars, graphVars, wfStatus, exc, execCount, sorterDone, layer,
                 taskResult, nodeExc, interrupt, isSet, nextEvent, batch,
                 batchState, batchSignal, oldSignals, pending>>

\* Node.run: task.run(ctx) returns a status, or its exception leaves execute()
NodeRunEnd_swallow(n, o) ==
  /\ pc = "in_node"
  /\ nstate[n] = "running"
  /\ IF o = "exception"
       THEN /\ nstate' = [nstate EXCEPT ![n] = "raised"]
            /\ nodeExc' = [nodeExc EXCEPT ![n] = "TaskException"]
            /\ UNCHANGED taskResult
       ELSE /\ nstate' = [nstate EXCEPT ![n] = "returned"]
            /\ taskResult' = [taskResult EXCEPT ![n] = o]
            /\ UNCHANGED nodeExc
  /\ pc' = "plain"
  /\ UNCHANGED <<otherVars, graphVars, ctxVars, wfStatus, exc, execCount, sorterDone, layer, todo, runs,
                 interrupt, isSet, nextEvent, batch, batchState, batchSignal,
                 oldSignals, pending>>

NodeRunEnd_crashed(n, o) ==
  /\ pc = "in_node"
  /\ nstate[n] = "running"
  /\ IF o = "exception"
       THEN /\ nstate' = [nstate EXCEPT ![n] = "raised"]
            /\ nodeExc' = [nodeExc EXCEPT ![n] = "TaskException"]
            /\ pc' = "raised"
            /\ exc' = "TaskException"
            /\ wfStatus' = "CRASHED"
            /\ UNCHANGED taskResult
       ELSE /\ nstate' = [nstate EXCEPT ![n] = "returned"]
            /\ taskResult' = [taskResult EXCEPT ![n] = o]
            /\ pc' = "plain"
            /\ UNCHANGED <<nodeExc, exc, wfStatus>>
  /\ UNCHANGED <<otherVars, graphVars, ctxVars, execCount, sorterDone, layer, todo, runs,
                 interrupt, isSet, nextEvent, batch, batchState, batchSignal,
                 oldSignals, pending>>

NodeRunEnd(n, o) ==
  /\ pc = "in_node"
  /\ nstate[n] = "running"
  /\ IF o = "exception"
       THEN /\ nstate' = [nstate EXCEPT ![n] = "raised"]
            /\ nodeExc' = [nodeExc EXCEPT ![n] = "TaskException"]
            /\ pc' = "raised"
            /\ exc' = "TaskException"
            /\ UNCHANGED taskResult
       ELSE /\ nstate' = [nstate EXCEPT ![n] = "returned"]
            /\ taskResult' = [taskResult EXCEPT ![n] = o]
            /\ pc' = "plain"
            /\ UNCHANGED <<nodeExc, exc>>
  /\ UNCHANGED <<otherVars, graphVars, ctxVars, wfStatus, execCount, sorterDone, layer, todo, runs,
                 interrupt, isSet, nextEvent, batch, batchState, batchSignal,
                 oldSignals, pending>>

\* execute_parallel_nodes and execute_multiple_nodes up to the submits
execute_parallel_nodes ==
  /\ pc = "plain"
  /\ todo = {}
  /\ LET P == parallel_nodes(layer)
         e1 == nextEvent
         e2 == nextEvent + 1
         mains == {n \in P : run_in_main_thread[n]}
         bgs == Background(P)
     IN  IF P = {}
           THEN \* nothing to run: back to the sequencer, sorter.done(nodes)
                /\ sorterDone' = sorterDone \cup layer
                /\ pc' = "seq"
                /\ UNCHANGED <<interrupt, nextEvent, batch, batchState,
                               batchSignal, oldSignals, nstate, exc>>
           ELSE /\ interrupt' = load_interrupt(load_interrupt(interrupt, P, e1), P, e2)
                /\ nextEvent' = nextEvent + 2
                /\ batchSignal' = e2
                /\ oldSignals' = IF batchSignal = NoEvent THEN oldSignals
                                 ELSE oldSignals \cup {batchSignal}
                /\ batch' = P
                /\ UNCHANGED sorterDone
                /\ IF ~main_thread_assert(mains)
                     THEN /\ pc' = "raised"
                          /\ exc' = "AssertionError"
                          /\ batchState' = "raised"
                          /\ UNCHANGED nstate
                     ELSE IF ~executor_created(bgs)
                       THEN /\ pc' = "raised"
                            /\ exc' = "ValueError: max_workers"
                            /\ batchState' = "raised"
                            /\ UNCHANGED nstate
                       ELSE /\ nstate' = [n \in nodes |->
                                 IF n \in bgs THEN "submitted" ELSE nstate[n]]
                            /\ pc' = IF mains # {} THEN "main_call" ELSE "futures_wait"
                            /\ batchState' = "running"
                            /\ UNCHANGED exc
  /\ UNCHANGED <<otherVars, graphVars, ctxVars, wfStatus, execCount, layer, todo, runs, taskResult,
                 nodeExc, isSet, pending>>

\* main_thread_node.run() is entered on the coordinator
main_call ==
  /\ pc = "main_call"
  /\ LET m == MainOf(batch)
     IN  /\ nstate' = [nstate EXCEPT ![m] = "try"]
         /\ runs' = [runs EXCEPT ![m] = @ + 1]
  /\ pc' = "main_running"
  /\ UNCHANGED <<otherVars, graphVars, ctxVars, wfStatus, exc, execCount, sorterDone, layer, todo,
                 taskResult, nodeExc, interrupt, isSet, nextEvent, batch,
                 batchState, batchSignal, oldSignals, pending>>

\* a pool worker enters node.run of a submitted node
PRunBegin(n) ==
  /\ nstate[n] = "submitted"
  /\ nstate' = [nstate EXCEPT ![n] = "try"]
  /\ runs' = [runs EXCEPT ![n] = @ + 1]
  /\ UNCHANGED <<otherVars, graphVars, ctxVars, wfStatus, pc, exc, execCount, sorterDone, layer, todo,
                 taskResult, nodeExc, interrupt, isSet, nextEvent, batch,
                 batchState, batchSignal, oldSignals, pending>>

\* ParallelNode.run: self.status = Status.RUNNING; status has no setter, the
\* AttributeError is caught by the except clause of run
PRunSetRunning(n) ==
  /\ nstate[n] = "try"
  /\ nstate' = [nstate EXCEPT ![n] = "except"]
  /\ UNCHANGED <<otherVars, graphVars, ctxVars, wfStatus, pc, exc, execCount, sorterDone, layer, todo,
                 runs, taskResult, nodeExc, interrupt, isSet, nextEvent, batch,
                 batchState, batchSignal, oldSignals, pending>>

\* ParallelNode.run, except clause: self.interrupt.set(), then
\* self.status = Status.CRASHED raises AttributeError out of run
PRunExcept(n) ==
  /\ nstate[n] = "except"
  /\ IF interrupt[n] = NoEvent
       THEN \* the interrupt property creates the Event lazily
            /\ interrupt' = [interrupt EXCEPT ![n] = nextEvent]
            /\ isSet' = isSet \cup {nextEvent}
            /\ nextEvent' = nextEvent + 1
       ELSE /\ isSet' = isSet \cup {interrupt[n]}
            /\ UNCHANGED <<interrupt, nextEvent>>
  /\ nstate' = [nstate EXCEPT ![n] = "raised"]
  /\ nodeExc' = [nodeExc EXCEPT ![n] = "AttributeError"]
  /\ UNCHANGED <<otherVars, graphVars, ctxVars, wfStatus, pc, exc, execCount, sorterDone, layer, todo,
                 runs, taskResult, batch, batchState, batchSignal, oldSignals,
                 pending>>

\* main_thread_node.run() is over: returned, or its exception leaves the block
main_done ==
  /\ pc = "main_running"
  /\ Finished(MainOf(batch))
  /\ IF nstate[MainOf(batch)] = "raised"
       THEN /\ pending' = nodeExc[MainOf(batch)]
            /\ pc' = "executor_exit"
       ELSE /\ pending' = "none"
            /\ pc' = "futures_wait"
  /\ UNCHANGED <<otherVars, graphVars, ctxVars, wfStatus, exc, execCount, sorterDone, layer, todo,
                 nstate, runs, taskResult, nodeExc, interrupt, isSet, nextEvent,
                 batch, batchState, batchSignal, oldSignals>>

\* futures.wait(future_tasks), then future.result() of each future
futures_wait ==
  /\ pc = "futures_wait"
  /\ \A b \in Background(batch) : Finished(b)
  /\ pending' = future_results(Background(batch))
  /\ pc' = "executor_exit"
  /\ UNCHANGED <<otherVars, graphVars, ctxVars, wfStatus, exc, execCount, sorterDone, layer, todo,
                 nstate, runs, taskResult, nodeExc, interrupt, isSet, nextEvent,
                 batch, batchState, batchSignal, oldSignals>>

\* the with-block of the executor is left; execute_multiple_nodes is over
executor_exit ==
  /\ pc = "executor_exit"
  /\ executor_shutdown_wait(Background(batch))
  /\ IF pending # "none"
       THEN /\ pc' = "raised"
            /\ exc' = pending
            /\ batchState' = "raised"
            /\ UNCHANGED sorterDone
       ELSE /\ pc' = "seq"
            /\ batchState' = "returned"
            /\ sorterDone' = sorterDone \cup layer
            /\ UNCHANGED exc
  /\ UNCHANGED <<otherVars, graphVars, ctxVars, wfStatus, execCount, layer, todo, nstate, runs,
                 taskResult, nodeExc, interrupt, isSet, nextEvent, batch,
                 batchSignal, oldSignals, pending>>

Next ==
  \/ execute
  \/ sequencer_yield
  \/ aggregate
  \/ \E n \in nodes : NodeRunBegin(n)
  \/ \E n \in nodes, o \in TaskOutcomes : NodeRunEnd(n, o)
  \/ execute_parallel_nodes
  \/ main_call
  \/ \E n \in nodes : PRunBegin(n)
  \/ \E n \in nodes : PRunSetRunning(n)
  \/ \E n \in nodes : PRunExcept(n)
  \/ main_done
  \/ futures_wait
  \/ executor_exit

Spec == Init /\ [][Next]_vars

\* ------------------------------------------- tasks that set the signal
\* the task of a plain Node calls ctx.interrupt.set() on the context
\* Node.create_context built for it
task_interrupt_set(n) ==
  /\ pc = "in_node"
  /\ nstate[n] = "running"
  /\ ctxInterrupt[n] \notin isSet
  /\ isSet' = isSet \cup {ctxInterrupt[n]}
  /\ UNCHANGED <<otherVars, graphVars, ctxVars, wfStatus, pc, exc, execCount,
                 sorterDone, layer, todo, nstate, runs, taskResult, nodeExc,
                 interrupt, nextEvent, batch, batchState, batchSignal,
                 oldSignals, pending>>

NextSignal ==
  \/ Next
  \/ \E n \in nodes : task_interrupt_set(n)

SpecSignal == Init /\ [][NextSignal]_vars

\* ------------------------------------------- status aggregation alone
\* no workflow: the variables of Workflow.execute at rest
WorkflowIdle ==
  /\ nodes = {}
  /\ isParallel = <<>>
  /\ run_in_main_thread = <<>>
  /\ edges = {}
  /\ nstate = <<>>
  /\ runs = <<>>
  /\ taskResult = <<>>
  /\ nodeExc = <<>>
  /\ interrupt = <<>>
  /\ ctxInterrupt = <<>>
  /\ wfStatus = "PENDING"
  /\ pc = "idle"
  /\ exc = "none"
  /\ execCount = 0
  /\ sorterDone = {}
  /\ layer = {}
  /\ todo = {}
  /\ isSet = {}
  /\ nextEvent = DefaultEvent + 1
  /\ batch = {}
  /\ batchState = "none"
  /\ batchSignal = NoEvent
  /\ oldSignals = {}
  /\ pending = "none"

\* the non-empty sequences of statuses of at most n elements
RECURSIVE StatusSeqs(_)
StatusSeqs(n) ==
  IF n = 0 THEN {}
  ELSE [1..n -> Status] \cup StatusSeqs(n - 1)

InitStatus ==
  /\ WorkflowIdle
  /\ ChannelIdle
  /\ PipeIdle
  /\ BuildIdle
  /\ TaskIdle
  /\ statuses \in StatusSeqs(MaxStatuses)
  /\ harshest = "none"

\* a call of return_most_harsh_status
harsh_call ==
  /\ harshest = "none"
  /\ harshest' = return_most_harsh_status(statuses)
  /\ UNCHANGED <<wfVars, chVars, pipeVars, buildVars, tkVars, statuses>>

NextStatus == harsh_call

SpecStatus == InitStatus /\ [][NextStatus]_vars

\* ------------------------------------------------------- channel alone
\* a Channel about to be constructed from any storage and any two strategies
InitChan ==
  /\ WorkflowIdle
  /\ StatusIdle
  /\ PipeIdle
  /\ BuildIdle
  /\ TaskIdle
  /\ chan \in [storage : Storages, read_strategy : ReadStrategies,
               write_strategy : WriteStrategies]
  /\ chState = "unbuilt"
  /\ rd = ReaderIdle
  /\ last = NoOp
  /\ written = <<>>
  /\ readLog = <<>>
  /\ nextItem = 1
  /\ nOps = 0

\* Channel.__init__: store the three parts, then validate()
channel_init ==
  /\ chState = "unbuilt"
  /\ chState' = IF /\ read_validate(chan.read_strategy, chan.storage)
                   /\ write_validate(chan.write_strategy, chan.storage)
                  THEN "built" ELSE "rejected"
  /\ UNCHANGED <<wfVars, stVars, pipeVars, buildVars, tkVars, chan, rd, last, written, readLog, nextItem, nOps>>

\* Channel.write with a SingleWriteStrategy: storage.write(data)
single_write(data) ==
  /\ chState = "built"
  /\ chan.write_strategy.type = "SingleWriteStrategy"
  /\ nOps < MaxOps
  /\ LET r == storage_write(chan.storage, data) IN
       /\ chan' = [chan EXCEPT !.storage = r.st]
       /\ last' = [NoOp EXCEPT !.op = "write", !.data = data, !.err = r.err,
                               !.before = chan.storage.items,
                               !.after = r.st.items]
  /\ written' = IF data = None THEN written ELSE Append(written, data)
  /\ nextItem' = IF data = None THEN nextItem ELSE nextItem + 1
  /\ nOps' = nOps + 1
  /\ UNCHANGED <<wfVars, stVars, pipeVars, buildVars, tkVars, chState, rd, readLog>>

\* MultiWriteStrategy.write: "for elem in data: self.storage.write(elem)",
\* left by the first exception
RECURSIVE write_each(_, _, _)
write_each(st, elems, given) ==
  IF elems = <<>> THEN [st |-> st, err |-> "none", given |-> given]
  ELSE LET r == storage_write(st, Head(elems))
           g == IF Head(elems) = None THEN given ELSE Append(given, Head(elems))
       IN IF r.err = "none" THEN write_each(r.st, Tail(elems), g)
          ELSE [st |-> r.st, err |-> r.err, given |-> g]

\* Channel.write with a MultiWriteStrategy: a missing sequence returns at once
multi_write(missing, elems) ==
  /\ chState = "built"
  /\ chan.write_strategy.type = "MultiWriteStrategy"
  /\ nOps < MaxOps
  /\ LET r == IF missing
                THEN [st |-> chan.storage, err |-> "none", given |-> <<>>]
                ELSE write_each(chan.storage, elems, <<>>)
     IN /\ chan' = [chan EXCEPT !.storage = r.st]
        /\ last' = [NoOp EXCEPT !.op = "mwrite", !.missing = missing,
                                !.err = r.err,
                                !.before = chan.storage.items,
                                !.after = r.st.items]
        /\ written' = written \o r.given
  /\ nextItem' = IF missing THEN nextItem
                 ELSE nextItem + Len(SelectSeq(elems, LAMBDA e : e # None))
  /\ nOps' = nOps + 1
  /\ UNCHANGED <<wfVars, stVars, pipeVars, buildVars, tkVars, chState, rd, readLog>>

\* Channel.read with a SingleReadStrategy: storage.read()
single_read ==
  /\ chState = "built"
  /\ chan.read_strategy.type = "SingleReadStrategy"
  /\ nOps < MaxOps
  /\ LET r == storage_read(chan.storage) IN
       /\ chan' = [chan EXCEPT !.storage = r.st]
       /\ last' = [NoOp EXCEPT !.op = "read", !.val = r.val, !.err = r.err,
                               !.before = chan.storage.items,
                               !.after = r.st.items]
       /\ readLog' = IF r.val = None THEN readLog ELSE Append(readLog, r.val)
  /\ nOps' = nOps + 1
  /\ UNCHANGED <<wfVars, stVars, pipeVars, buildVars, tkVars, chState, rd, written, nextItem>>

\* MultiReadStrategy.read: amount_to_read is fixed from len(storage) on entry
multi_read_begin ==
  /\ chState = "built"
  /\ chan.read_strategy.type = "MultiReadStrategy"
  /\ ~rd.active
  /\ nOps < MaxOps
  /\ rd' = [active |-> TRUE,
            amount |-> amount_to_read(chan.read_strategy.chunk_size,
                                      storage_len(chan.storage)),
            buf |-> <<>>, before |-> chan.storage.items]
  /\ nOps' = nOps + 1
  /\ UNCHANGED <<wfVars, stVars, pipeVars, buildVars, tkVars, chan, chState, last, written, readLog, nextItem>>

\* MultiReadStrategy.read: one storage.read() of the generator
multi_read_step ==
  /\ rd.active
  /\ Len(rd.buf) < rd.amount
  /\ LET r == storage_read(chan.storage) IN
       /\ chan' = [chan EXCEPT !.storage = r.st]
       /\ readLog' = IF r.val = None THEN readLog ELSE Append(readLog, r.val)
       /\ IF r.err = "none"
            THEN /\ rd' = [rd EXCEPT !.buf = Append(rd.buf, r.val)]
                 /\ UNCHANGED last
            ELSE /\ rd' = ReaderIdle
                 /\ last' = [NoOp EXCEPT !.op = "mread", !.err = r.err,
                                         !.before = rd.before,
                                         !.after = r.st.items]
  /\ UNCHANGED <<wfVars, stVars, pipeVars, buildVars, tkVars, chState, written, nextItem, nOps>>

\* MultiReadStrategy.read: return list(filter(lambda x: x is not None, ...))
multi_read_end ==
  /\ rd.active
  /\ Len(rd.buf) = rd.amount
  /\ last' = [NoOp EXCEPT !.op = "mread",
                          !.vals = SelectSeq(rd.buf, LAMBDA x : x # None),
                          !.before = rd.before,
                          !.after = chan.storage.items]
  /\ rd' = ReaderIdle
  /\ UNCHANGED <<wfVars, stVars, pipeVars, buildVars, tkVars, chan, chState, written, readLog, nextItem, nOps>>

\* what the writer passes to a MultiWriteStrategy
MultiWriteData == {<<>>, <<nextItem, nextItem + 1>>, <<None, nextItem>>}

NextChan ==
  \/ channel_init
  \/ \E data \in {None, nextItem} : single_write(data)
  \/ multi_write(TRUE, <<>>)
  \/ \E elems \in MultiWriteData : multi_write(FALSE, elems)
  \/ single_read
  \/ multi_read_begin
  \/ multi_read_step
  \/ multi_read_end

SpecChan == InitChan /\ [][NextChan]_vars

\* ------------------------------------------------------------- pipeline
\* what the func of the producer may return
Produced == {None, Answer - 1, Answer, Answer + 1}

\* node 1 is P, an OutputFuncTask; node 2 is C, a TransformFuncTask adding 1;
\* flow.connect(P, C, create_single_item_channel()), and
\* flow.configure_result_channel(P or C) called or not, before or after connect
\* the bindings the construction calls leave: connect(P, C, channel 1) makes
\* channel 1 P's write_channel; configure_result_channel(n) makes channel 2 the
\* result channel and n's write_channel; the later call overwrites the earlier
\* one's write_channel
PipeWirings ==
  {[write |-> <<1, None>>, result_channel |-> None, result_node |-> None],
   [write |-> <<1, 2>>, result_channel |-> 2, result_node |-> 2],
   [write |-> <<2, None>>, result_channel |-> 2, result_node |-> 1],
   [write |-> <<1, None>>, result_channel |-> 2, result_node |-> 1]}

InitPipe ==
  /\ StatusIdle
  /\ ChannelIdle
  /\ BuildIdle
  /\ TaskIdle
  /\ nodes = 1..2
  /\ isParallel = [n \in 1..2 |-> FALSE]
  /\ run_in_main_thread = [n \in 1..2 |-> FALSE]
  /\ edges = {<<1, 2>>}
  /\ nstate = [n \in 1..2 |-> "idle"]
  /\ runs = [n \in 1..2 |-> 0]
  /\ taskResult = [n \in 1..2 |-> "none"]
  /\ nodeExc = [n \in 1..2 |-> "none"]
  /\ interrupt = [n \in 1..2 |-> NoEvent]
  /\ ctxInterrupt = [n \in 1..2 |-> NoEvent]
  /\ wfStatus = "PENDING"
  /\ pc = "idle"
  /\ exc = "none"
  /\ execCount = 0
  /\ sorterDone = {}
  /\ layer = {}
  /\ todo = {}
  /\ isSet = {}
  /\ nextEvent = DefaultEvent + 1
  /\ batch = {}
  /\ batchState = "none"
  /\ batchSignal = NoEvent
  /\ oldSignals = {}
  /\ pending = "none"
  /\ \E v \in Produced :
       task = <<[kind |-> "OutputFuncTask", value |-> v],
                [kind |-> "TransformFuncTask", value |-> None]>>
  /\ read_channel = <<None, 1>>
  /\ \E w \in PipeWirings :
       /\ write_channel = w.write
       /\ result_channel = w.result_channel
       /\ result_node = w.result_node
  /\ channels = [c \in 1..2 |-> create_single_item_channel]
  /\ funcArg = <<None, None>>
  /\ result = [at |-> 0, val |-> None]

\* io_adapter: channel.read of the node's read_channel, or empty_read
read_callable(n, chs) ==
  IF read_channel[n] = None THEN [chs |-> chs, val |-> None]
  ELSE LET r == storage_read(chs[read_channel[n]].storage)
       IN [chs |-> [chs EXCEPT ![read_channel[n]].storage = r.st], val |-> r.val]

\* io_adapter: channel.write of the node's write_channel, or empty_write
write_callable_nowhere(n, chs, data) == chs
write_callable(n, chs, data) ==
  IF write_channel[n] = None THEN chs
  ELSE [chs EXCEPT ![write_channel[n]].storage =
          storage_write(chs[write_channel[n]].storage, data).st]

\* Node.run of an OutputFuncTask: result = func(); ctx.write_callable(result);
\* run has no return statement
OutputFuncTask_run(n) ==
  /\ pc = "in_node"
  /\ nstate[n] = "running"
  /\ task[n].kind = "OutputFuncTask"
  /\ channels' = write_callable(n, channels, task[n].value)
  /\ nstate' = [nstate EXCEPT ![n] = "returned"]
  /\ taskResult' = [taskResult EXCEPT ![n] = "None"]
  /\ pc' = "plain"
  /\ UNCHANGED <<stVars, chVars, buildVars, tkVars, graphVars, ctxVars, wfStatus, exc, execCount,
                 sorterDone, layer, todo, runs, nodeExc, interrupt, isSet,
                 nextEvent, batch, batchState, batchSignal, oldSignals, pending,
                 task, read_channel, write_channel, result_channel, result_node, funcArg,
                 result>>

\* Node.run of a TransformFuncTask with func = lambda x: x + 1:
\* data = ctx.read_callable(); result = func(data); ctx.write_callable(result);
\* None + 1 raises TypeError, which leaves execute()
TransformFuncTask_run(n) ==
  /\ pc = "in_node"
  /\ nstate[n] = "running"
  /\ task[n].kind = "TransformFuncTask"
  /\ LET r == read_callable(n, channels) IN
       /\ funcArg' = [funcArg EXCEPT ![n] = r.val]
       /\ IF r.val = None
            THEN /\ channels' = r.chs
                 /\ nstate' = [nstate EXCEPT ![n] = "raised"]
                 /\ nodeExc' = [nodeExc EXCEPT ![n] = "TypeError"]
                 /\ pc' = "raised"
                 /\ exc' = "TypeError"
                 /\ UNCHANGED taskResult
            ELSE /\ channels' = write_callable(n, r.chs, r.val + 1)
                 /\ nstate' = [nstate EXCEPT ![n] = "returned"]
                 /\ taskResult' = [taskResult EXCEPT ![n] = "None"]
                 /\ pc' = "plain"
                 /\ UNCHANGED <<nodeExc, exc>>
  /\ UNCHANGED <<stVars, chVars, buildVars, tkVars, graphVars, ctxVars, wfStatus, execCount,
                 sorterDone, layer, todo, runs, interrupt, isSet, nextEvent,
                 batch, batchState, batchSignal, oldSignals, pending, task,
                 read_channel, write_channel, result_channel, result_node, result>>

\* Workflow.result, read by the caller once after an execute()
result_read ==
  /\ pc \in {"done", "raised"}
  /\ result.at < execCount
  /\ IF result_channel = None
       THEN /\ result' = [at |-> execCount, val |-> None]
            /\ UNCHANGED channels
       ELSE LET r == storage_read(channels[result_channel].storage) IN
            /\ result' = [at |-> execCount, val |-> r.val]
            /\ channels' = [channels EXCEPT ![result_channel].storage = r.st]
  /\ UNCHANGED <<wfVars, stVars, chVars, buildVars, tkVars, task, read_channel, write_channel,
                 result_channel, result_node, funcArg>>

NextPipe ==
  \/ execute
  \/ sequencer_yield
  \/ aggregate
  \/ \E n \in nodes : NodeRunBegin(n)
  \/ \E n \in nodes : OutputFuncTask_run(n)
  \/ \E n \in nodes : TransformFuncTask_run(n)
  \/ execute_parallel_nodes
  \/ result_read

SpecPipe == InitPipe /\ [][NextPipe]_vars

\* --------------------------------------------------------- construction
\* the Node objects the caller holds, the names they may bear, the channels
NodeObjs == 1..MaxObjs
Names == {"a", "b"}
BuildChannels == {1, 2}

\* Workflow(): two empty graphs; the Node objects exist, bound to nothing
InitBuild ==
  /\ WorkflowIdle
  /\ StatusIdle
  /\ ChannelIdle
  /\ TaskIdle
  /\ task = <<>>
  /\ result_channel = None
  /\ result_node = None
  /\ channels = <<>>
  /\ funcArg = <<>>
  /\ result = [at |-> 0, val |-> None]
  /\ read_channel = [o \in NodeObjs |-> None]
  /\ write_channel = [o \in NodeObjs |-> None]
  /\ name \in [NodeObjs -> Names]
  /\ dep = [nodes |-> <<>>, edges |-> <<>>]
  /\ df = [nodes |-> <<>>, edges |-> <<>>]
  /\ depNames = [n \in Names |-> None]
  /\ dfNames = [n \in Names |-> None]
  /\ appearances = [o \in NodeObjs |-> [dependency |-> None, dataflow |-> None]]
  /\ call = NoCall
  /\ nCalls = 0

\* rx.is_directed_acyclic_graph: no index reaches itself along the edges
RECURSIVE Closure(_, _)
Closure(S, E) ==
  LET T == S \cup {E[i][2] : i \in {j \in DOMAIN E : E[j][1] \in S}}
  IN IF T = S THEN S ELSE Closure(T, E)
is_directed_acyclic_graph(g) ==
  \A x \in DOMAIN g.nodes :
    x \notin Closure({g.edges[i][2] : i \in {j \in DOMAIN g.edges : g.edges[j][1] = x}},
                     g.edges)

\* GraphHandler.add_node: graph.add_node gives the next index (counted from 1
\* here), the node records it, the name map takes the node under its name
handler_add_node(g, o) == [g EXCEPT !.nodes = Append(@, o)]

\* GraphHandler.node_to_index: the index the node recorded for this graph type;
\* None stands for the KeyError of a node never added
node_to_index(app, type, o) == app[o][type]

\* PyDiGraph.add_edge: the graph is built with check_cycle unset and as a
\* multigraph, so the edge is appended whatever the graph holds
add_edge(g, e) == [g EXCEPT !.edges = Append(@, e)]

\* "if channel:" of Workflow.connect; a Channel object is always true
channel_given_always(ch) == TRUE
channel_given(ch) == ch # None

\* Workflow.add_node: the node is added to both graphs
add_node(o) ==
  /\ nCalls < MaxCalls
  /\ dep' = handler_add_node(dep, o)
  /\ df' = handler_add_node(df, o)
  /\ appearances' = [appearances EXCEPT
                       ![o] = [dependency |-> Len(dep.nodes) + 1,
                               dataflow |-> Len(df.nodes) + 1]]
  /\ depNames' = [depNames EXCEPT ![name[o]] = o]
  /\ dfNames' = [dfNames EXCEPT ![name[o]] = o]
  /\ call' = [NoCall EXCEPT !.op = "add_node", !.a = o]
  /\ nCalls' = nCalls + 1
  /\ UNCHANGED <<wfVars, stVars, chVars, tkVars, pipeVars, name>>

\* Workflow.connect_dependency: add_edge_by_nodes on the dependency graph
connect_dependency(a, b) ==
  /\ nCalls < MaxCalls
  /\ LET ia == node_to_index(appearances, "dependency", a)
         ib == node_to_index(appearances, "dependency", b)
     IN IF ia = None \/ ib = None
          THEN /\ call' = [NoCall EXCEPT !.op = "connect_dependency", !.a = a,
                                         !.b = b, !.err = "KeyError"]
               /\ UNCHANGED dep
          ELSE /\ call' = [NoCall EXCEPT !.op = "connect_dependency", !.a = a,
                                         !.b = b]
               /\ dep' = add_edge(dep, <<ia, ib>>)
  /\ nCalls' = nCalls + 1
  /\ UNCHANGED <<wfVars, stVars, chVars, tkVars, pipeVars, name, df, depNames, dfNames,
                 appearances>>

\* Workflow.connect_dataflow: both bindings are made, then the edge is added
connect_dataflow(a, b, ch) ==
  /\ nCalls < MaxCalls
  /\ write_channel' = [write_channel EXCEPT ![a] = ch]
  /\ read_channel' = [read_channel EXCEPT ![b] = ch]
  /\ LET ia == node_to_index(appearances, "dataflow", a)
         ib == node_to_index(appearances, "dataflow", b)
     IN IF ia = None \/ ib = None
          THEN /\ call' = [NoCall EXCEPT !.op = "connect_dataflow", !.a = a,
                                         !.b = b, !.ch = ch, !.err = "KeyError"]
               /\ UNCHANGED df
          ELSE /\ call' = [NoCall EXCEPT !.op = "connect_dataflow", !.a = a,
                                         !.b = b, !.ch = ch]
               /\ df' = add_edge(df, <<ia, ib, ch>>)
  /\ nCalls' = nCalls + 1
  /\ UNCHANGED <<wfVars, stVars, chVars, tkVars, buildVarsKept, dep, task,
                 result_channel, result_node, channels, funcArg, result>>

\* Workflow.connect: connect_dependency, then connect_dataflow if a channel
\* was given
connect(a, b, ch) ==
  /\ nCalls < MaxCalls
  /\ LET ia == node_to_index(appearances, "dependency", a)
         ib == node_to_index(appearances, "dependency", b)
         ja == node_to_index(appearances, "dataflow", a)
         jb == node_to_index(appearances, "dataflow", b)
     IN IF ia = None \/ ib = None
          THEN /\ call' = [NoCall EXCEPT !.op = "connect", !.a = a, !.b = b,
                                         !.ch = ch, !.err = "KeyError"]
               /\ UNCHANGED <<dep, df, read_channel, write_channel>>
          ELSE /\ dep' = add_edge(dep, <<ia, ib>>)
               /\ IF channel_given(ch)
                    THEN /\ write_channel' = [write_channel EXCEPT ![a] = ch]
                         /\ read_channel' = [read_channel EXCEPT ![b] = ch]
                         /\ IF ja = None \/ jb = None
                              THEN /\ call' = [NoCall EXCEPT
                                                 !.op = "connect", !.a = a,
                                                 !.b = b, !.ch = ch,
                                                 !.err = "KeyError"]
                                   /\ UNCHANGED df
                              ELSE /\ call' = [NoCall EXCEPT
                                                 !.op = "connect", !.a = a,
                                                 !.b = b, !.ch = ch]
                                   /\ df' = add_edge(df, <<ja, jb, ch>>)
                    ELSE /\ call' = [NoCall EXCEPT !.op = "connect", !.a = a,
                                                   !.b = b, !.ch = ch]
                         /\ UNCHANGED <<df, read_channel, write_channel>>
  /\ nCalls' = nCalls + 1
  /\ UNCHANGED <<wfVars, stVars, chVars, tkVars, buildVarsKept, task, result_channel, result_node,
                 channels, funcArg, result>>

\* Workflow.copy_dependencies -> GraphHandler.copy_deg_in: the in-edges of the
\* reference node are repeated with the new node as target.  add_edges_from is
\* handed a map object: whether the binding takes an iterator or raises
\* TypeError is left open (accepts)
copy_dependencies(ref, new, accepts) ==
  /\ nCalls < MaxCalls
  /\ IF depNames[ref] = None \/ depNames[new] = None
       THEN /\ call' = [NoCall EXCEPT !.op = "copy_dependencies", !.ref = ref,
                                      !.new = new, !.err = "KeyError"]
            /\ UNCHANGED dep
       ELSE LET ri == node_to_index(appearances, "dependency", depNames[ref])
                ni == node_to_index(appearances, "dependency", depNames[new])
                ref_edges == SelectSeq(dep.edges, LAMBDA e : e[2] = ri)
                new_edges == [i \in DOMAIN ref_edges |-> <<ref_edges[i][1], ni>>]
            IN IF accepts
                 THEN /\ call' = [NoCall EXCEPT !.op = "copy_dependencies",
                                                !.ref = ref, !.new = new]
                      /\ dep' = [dep EXCEPT !.edges = @ \o new_edges]
                 ELSE /\ call' = [NoCall EXCEPT !.op = "copy_dependencies",
                                                !.ref = ref, !.new = new,
                                                !.err = "TypeError"]
                      /\ UNCHANGED dep
  /\ nCalls' = nCalls + 1
  /\ UNCHANGED <<wfVars, stVars, chVars, tkVars, pipeVars, name, df, depNames, dfNames,
                 appearances>>

\* Workflow.replace_node -> GraphHandler.replace_node_payload on the dependency
\* graph, then on the dataflow graph: the node found under the old name gives
\* the index, the new node records it and becomes the payload at it, the old
\* name is popped and the new node is entered under its own name.  An unknown
\* name is a KeyError before anything changed (the two name maps hold the same
\* keys).  Neither the edges nor any channel binding is touched.
replace_node(old, new) ==
  /\ nCalls < MaxCalls
  /\ IF depNames[old] = None
       THEN /\ call' = [NoCall EXCEPT !.op = "replace_node", !.ref = old,
                                      !.a = new, !.err = "KeyError"]
            /\ UNCHANGED <<dep, df, depNames, dfNames, appearances>>
       ELSE LET i == node_to_index(appearances, "dependency", depNames[old])
                j == node_to_index(appearances, "dataflow", dfNames[old])
            IN /\ call' = [NoCall EXCEPT !.op = "replace_node", !.ref = old,
                                         !.a = new]
               /\ dep' = [dep EXCEPT !.nodes[i] = new]
               /\ df' = [df EXCEPT !.nodes[j] = new]
               /\ appearances' = [appearances EXCEPT
                                    ![new] = [dependency |-> i, dataflow |-> j]]
               /\ depNames' = [[depNames EXCEPT ![old] = None]
                                 EXCEPT ![name[new]] = new]
               /\ dfNames' = [[dfNames EXCEPT ![old] = None]
                                EXCEPT ![name[new]] = new]
  /\ nCalls' = nCalls + 1
  /\ UNCHANGED <<wfVars, stVars, chVars, tkVars, pipeVars, name>>

\* Workflow.configure_result_channel: a channel made on the spot becomes the
\* workflow's result channel and the node's write_channel
configure_result_channel(o) ==
  /\ nCalls < MaxCalls
  /\ LET fresh == Cardinality(BuildChannels) + nCalls + 1
     IN /\ result_channel' = fresh
        /\ result_node' = o
        /\ write_channel' = [write_channel EXCEPT ![o] = fresh]
  /\ call' = [NoCall EXCEPT !.op = "configure_result_channel", !.a = o]
  /\ nCalls' = nCalls + 1
  /\ UNCHANGED <<wfVars, stVars, chVars, tkVars, buildVarsKept, dep, df, task,
                 read_channel, channels, funcArg, result>>

\* rx.TopologicalSorter.get_ready on a graph held as payloads and edge list
graph_ready_one(g, done) ==
  LET ready == {i \in DOMAIN g.nodes \ done :
                  \A k \in DOMAIN g.edges :
                     g.edges[k][2] = i => g.edges[k][1] \in done}
  IN IF ready = {} THEN {}
     ELSE {CHOOSE i \in ready : \A k \in ready : i <= k}
graph_ready(g, done) ==
  {i \in DOMAIN g.nodes \ done :
     \A k \in DOMAIN g.edges : g.edges[k][2] = i => g.edges[k][1] \in done}

\* topological_sequencer: the layers execute() would go through, or the
\* AssertionError of a graph with a cycle
RECURSIVE graph_layers(_, _)
graph_layers(g, done) ==
  IF done = DOMAIN g.nodes THEN <<>>
  ELSE <<graph_ready(g, done)>> \o graph_layers(g, done \cup graph_ready(g, done))
topological_sequencer(g) ==
  IF is_directed_acyclic_graph(g)
    THEN [ok |-> TRUE, layers |-> graph_layers(g, {})]
    ELSE [ok |-> FALSE, layers |-> <<>>]

NextBuild ==
  \/ \E o \in NodeObjs : add_node(o)
  \/ \E old \in Names, new \in NodeObjs : replace_node(old, new)
  \/ \E o \in NodeObjs : configure_result_channel(o)
  \/ \E a, b \in NodeObjs : connect_dependency(a, b)
  \/ \E a, b \in NodeObjs, ch \in BuildChannels : connect_dataflow(a, b, ch)
  \/ \E a, b \in NodeObjs, ch \in BuildChannels \cup {None} : connect(a, b, ch)
  \/ \E ref, new \in Names, accepts \in BOOLEAN :
       copy_dependencies(ref, new, accepts)

SpecBuild == InitBuild /\ [][NextBuild]_vars

\* -------------------------------------------------------------- polling
\* the tasks a PollingTask wraps in the model: a task returning a fixed status
\* (CountingTask, BadTask of the tests) and three function templates
PolledTemplates == {"OutputFuncTask", "TransformFuncTask", "InputFuncTask"}
PolledTasks ==
  {[NoTask EXCEPT !.status = s] : s \in Status}
    \cup {[NoTask EXCEPT !.kind = k] : k \in PolledTemplates}

\* what task.run(ctx) returns when the user function returns normally: "None"
\* is Python's None, returned by a run that ends without a return statement
task_return(t) ==
  CASE t.kind = "Task" -> t.status
    [] t.kind = "InputFuncTask" -> "FINISHED"
    [] t.kind = "OutputFuncTask" -> "None"
    [] t.kind = "TransformFuncTask" -> "None"
    [] t.kind = "ContextFuncTask" -> "None"

\* stop_callable(): a predicate that never holds (the default) or one that
\* holds once the wrapped task has run stop.after times
stop_callable == ~stop.never /\ calls >= stop.after

\* "while not (self.stop_callable() or ctx.interrupt.is_set())"
loop_continues_unsignalled(stopped, signalled) == ~stopped
loop_continues(stopped, signalled) == ~(stopped \/ signalled)

\* "if status != Status.FINISHED: return status"
propagates_never(status) == FALSE
propagates(status) == status # "FINISHED"

\* PollingTask(task=..., stop_callable=...).run(ctx) is entered
InitPoll ==
  /\ WorkflowIdle
  /\ StatusIdle
  /\ ChannelIdle
  /\ PipeIdle
  /\ BuildIdle
  /\ tk \in PolledTasks
  /\ stop \in {[never |-> TRUE, after |-> 0]}
              \cup {[never |-> FALSE, after |-> k] : k \in 0..MaxPolls}
  /\ sig \in BOOLEAN
  /\ sig0 = sig
  /\ ctxStatus = "RUNNING"
  /\ tpc = "check"
  /\ ret = "none"
  /\ calls = 0
  /\ waits = 0
  /\ inbox = None
  /\ genLen = 0
  /\ req = 0
  /\ out = <<>>
  /\ reqAfterSet = 0

\* another thread sets the interrupt while run(ctx) is under way
interrupt_set ==
  /\ tpc \notin {"idle", "returned"}
  /\ ~sig
  /\ sig' = TRUE
  /\ UNCHANGED <<wfVars, stVars, chVars, pipeVars, buildVars, tk, stop, sig0,
                 ctxStatus, tpc, ret, calls, waits, inbox, genLen, req, out,
                 reqAfterSet>>

\* PollingTask.run: the while condition; when it fails run returns FINISHED
poll_check ==
  /\ tpc = "check"
  /\ IF loop_continues(stop_callable, sig)
       THEN /\ tpc' = "body"
            /\ UNCHANGED ret
       ELSE /\ tpc' = "returned"
            /\ ret' = "FINISHED"
  /\ UNCHANGED <<wfVars, stVars, chVars, pipeVars, buildVars, tk, stop, sig,
                 sig0, ctxStatus, calls, waits, inbox, genLen, req, out, reqAfterSet>>

\* PollingTask.run: status = self.task.run(ctx), returned if not FINISHED
poll_body ==
  /\ tpc = "body"
  /\ calls < MaxPolls
  /\ calls' = calls + 1
  /\ IF propagates(task_return(tk))
       THEN /\ tpc' = "returned"
            /\ ret' = task_return(tk)
       ELSE /\ tpc' = "wait"
            /\ UNCHANGED ret
  /\ UNCHANGED <<wfVars, stVars, chVars, pipeVars, buildVars, tk, stop, sig,
                 sig0, ctxStatus, waits, inbox, genLen, req, out, reqAfterSet>>

\* PollingTask.run: ctx.interrupt.wait(refresh_time_seconds) is over
poll_wait ==
  /\ tpc = "wait"
  /\ waits' = waits + 1
  /\ tpc' = "check"
  /\ UNCHANGED <<wfVars, stVars, chVars, pipeVars, buildVars, tk, stop, sig,
                 sig0, ctxStatus, ret, calls, inbox, genLen, req, out, reqAfterSet>>

NextPoll ==
  \/ interrupt_set
  \/ poll_check
  \/ poll_body
  \/ poll_wait

SpecPoll == InitPoll /\ [][NextPoll]_vars

\* ------------------------------------------------- function templates
Templates ==
  {"OutputFuncTask", "TransformFuncTask", "InputFuncTask", "ContextFuncTask"}

\* a template is built around a user function and run once on a context whose
\* inbound channel holds an item (ctx_io, ctx_out_only, ctx_in_only of the
\* tests); the function returns normally or raises, and the function of a
\* ContextFuncTask may store a status in ctx.status
InitTemplate ==
  /\ WorkflowIdle
  /\ StatusIdle
  /\ ChannelIdle
  /\ PipeIdle
  /\ BuildIdle
  /\ tk \in {[kind |-> k, status |-> "FINISHED", raises |-> r, sets |-> st] :
               k \in Templates, r \in BOOLEAN,
               st \in {"untouched"} \cup Status}
  /\ tk.kind # "ContextFuncTask" => tk.sets = "untouched"
  /\ stop = [never |-> TRUE, after |-> 0]
  /\ sig = FALSE
  /\ sig0 = FALSE
  /\ ctxStatus = "RUNNING"
  /\ tpc = "start"
  /\ ret = "none"
  /\ calls = 0
  /\ waits = 0
  /\ inbox \in 0..MaxItem
  /\ genLen = 0
  /\ req = 0
  /\ out = <<>>
  /\ reqAfterSet = 0

\* the end of a template's run: the exception of the user function leaves
\* run, or run returns what its body returns
template_end(items, status) ==
  /\ tpc = "start"
  /\ IF tk.raises
       THEN /\ tpc' = "raised"
            /\ ret' = "exception"
            /\ UNCHANGED <<out, ctxStatus>>
       ELSE /\ tpc' = "returned"
            /\ ret' = task_return(tk)
            /\ out' = out \o items
            /\ ctxStatus' = status
  /\ UNCHANGED <<wfVars, stVars, chVars, pipeVars, buildVars, tk, stop, sig,
                 sig0, calls, waits, inbox, genLen, req, reqAfterSet>>

\* OutputFuncTask.run: result = self.func(); ctx.write_callable(result)
run_OutputFuncTask ==
  /\ tk.kind = "OutputFuncTask"
  /\ template_end(<<Answer>>, ctxStatus)

\* TransformFuncTask.run: data = ctx.read_callable();
\* result = self.func(data); ctx.write_callable(result)
run_TransformFuncTask ==
  /\ tk.kind = "TransformFuncTask"
  /\ template_end(<<inbox + 1>>, ctxStatus)

\* InputFuncTask.run: data = ctx.read_callable(); self.func(data);
\* return Status.FINISHED
run_InputFuncTask ==
  /\ tk.kind = "InputFuncTask"
  /\ template_end(<<>>, ctxStatus)

\* ContextFuncTask.run: self.func(ctx), with the function of the tests
\* (x = ctx.read_callable(); ctx.write_callable(x + 1)) that may also assign
\* ctx.status
run_ContextFuncTask ==
  /\ tk.kind = "ContextFuncTask"
  /\ template_end(<<inbox + 1>>,
                  IF tk.sets = "untouched" THEN ctxStatus ELSE tk.sets)

NextTemplate ==
  \/ run_OutputFuncTask
  \/ run_TransformFuncTask
  \/ run_InputFuncTask
  \/ run_ContextFuncTask

SpecTemplate == InitTemplate /\ [][NextTemplate]_vars

\* ------------------------------------------------------------ generator
\* "if ctx.interrupt.is_set(): return Status.FINISHED"
interrupt_seen_never(signalled) == FALSE
interrupt_seen(signalled) == signalled

\* GeneratorFuncTask(generator_callable=...).run(ctx) is entered; the routine
\* yields the items 1..genLen and does not look at the interrupt itself
InitGen ==
  /\ WorkflowIdle
  /\ StatusIdle
  /\ ChannelIdle
  /\ PipeIdle
  /\ BuildIdle
  /\ tk = NoTask
  /\ stop = [never |-> TRUE, after |-> 0]
  /\ sig \in BOOLEAN
  /\ sig0 = sig
  /\ ctxStatus = "RUNNING"
  /\ tpc = "next"
  /\ ret = "none"
  /\ calls = 0
  /\ waits = 0
  /\ inbox = None
  /\ genLen \in 0..MaxGen
  /\ req = 0
  /\ out = <<>>
  /\ reqAfterSet = 0

\* "for output_data in gen": the next item is requested from the routine; an
\* exhausted routine ends the loop and run returns FINISHED
gen_next ==
  /\ tpc = "next"
  /\ IF req < genLen
       THEN /\ req' = req + 1
            /\ reqAfterSet' = IF sig THEN reqAfterSet + 1 ELSE reqAfterSet
            /\ tpc' = "write"
            /\ UNCHANGED ret
       ELSE /\ tpc' = "returned"
            /\ ret' = "FINISHED"
            /\ UNCHANGED <<req, reqAfterSet>>
  /\ UNCHANGED <<wfVars, stVars, chVars, pipeVars, buildVars, tk, stop, sig,
                 sig0, ctxStatus, calls, waits, inbox, genLen, out>>

\* ctx.write_callable(output_data)
gen_write ==
  /\ tpc = "write"
  /\ out' = Append(out, req)
  /\ tpc' = "test"
  /\ UNCHANGED <<wfVars, stVars, chVars, pipeVars, buildVars, tk, stop, sig,
                 sig0, ctxStatus, ret, calls, waits, inbox, genLen, req,
                 reqAfterSet>>

\* the interrupt is looked at after the item was written
gen_test ==
  /\ tpc = "test"
  /\ IF interrupt_seen(sig)
       THEN /\ tpc' = "returned"
            /\ ret' = "FINISHED"
       ELSE /\ tpc' = "next"
            /\ UNCHANGED ret
  /\ UNCHANGED <<wfVars, stVars, chVars, pipeVars, buildVars, tk, stop, sig,
                 sig0, ctxStatus, calls, waits, inbox, genLen, req, out,
                 reqAfterSet>>

NextGen ==
  \/ interrupt_set
  \/ gen_next
  \/ gen_write
  \/ gen_test

SpecGen == InitGen /\ [][NextGen]_vars

\* ---------------------------------------------------------------- claims
\* length of the longest dependency chain ending in n: the index of n's layer
RECURSIVE Depth(_)
Depth(n) ==
  IF Pred(n) = {} THEN 0
  ELSE LET ds == {Depth(p) : p \in Pred(n)}
       IN  1 + (CHOOSE d \in ds : \A e \in ds : e <= d)

PlainFailed == \E n \in nodes : ~isParallel[n] /\ nstate[n] = "raised"

\* C1: a node's run has started only if the run of every dependency
\* predecessor is over, and only if every node of every earlier layer is over.
C1_OrderingGuarantee ==
  \A n \in nodes :
    Started(n) =>
      /\ \A p \in Pred(n) : Finished(p)
      /\ \A m \in nodes : Depth(m) < Depth(n) => Finished(m)

\* a node of a later layer runs, after a predecessor and after a node of an
\* earlier layer that is not its predecessor
C1_Witness ==
  \E n \in nodes :
    /\ InRun(n)
    /\ Pred(n) # {}
    /\ \E m \in nodes \ Pred(n) : Depth(m) < Depth(n) /\ Finished(m)

\* C2: no node is run twice during an execute(), and when execute() returns
\* normally every node of the graph has been run exactly once.
C2_RunExactlyOnce ==
  /\ \A n \in nodes : runs[n] <= 1
  /\ pc = "done" => \A n \in nodes : runs[n] = 1 /\ nstate[n] = "returned"

\* execute() returned normally on a graph of several layers
C2_Witness ==
  /\ pc = "done"
  /\ Cardinality(nodes) >= 3
  /\ \E n \in nodes : Depth(n) >= 1

\* C3: a batch with two or more main-thread nodes ends with the assertion
\* error, and no member of the batch has been started or submitted.
C3_TwoMainThreadNodesFailFast ==
  (batchState # "none" /\ Cardinality(batch \ Background(batch)) >= 2) =>
    /\ pc = "raised"
    /\ exc = "AssertionError"
    /\ batchState = "raised"
    /\ \A n \in batch : nstate[n] = "idle" /\ runs[n] = 0

\* the assertion failed on a batch of two main-thread nodes and a background one
C3_Witness ==
  /\ exc = "AssertionError"
  /\ Cardinality(batch \ Background(batch)) = 2
  /\ Background(batch) # {}

\* C4: while a batch runs, every member holds the batch's signal, no other node
\* holds it, it is none of the earlier batches' signals nor the TaskContext
\* default, it is unset until a member has started, the context create_context
\* builds for a member carries it, and once a member has set it every member's
\* signal is set.
C4_SharedFreshSignal ==
  batchState = "running" =>
    /\ batchSignal \notin oldSignals \cup {NoEvent, DefaultEvent}
    /\ \A n \in batch : interrupt[n] = batchSignal
    /\ \A n \in nodes \ batch : interrupt[n] # batchSignal
    /\ \A n \in batch : create_context(n) = batchSignal
    /\ (\A n \in batch : ~Started(n)) => batchSignal \notin isSet
    /\ (\E n \in batch : nstate[n] = "raised") =>
         \A m \in batch : interrupt[m] \in isSet

\* a batch of a second execute(): the first batch's signal is set, one member
\* has set the new signal while another member has not yet started
C4_Witness ==
  /\ batchState = "running"
  /\ oldSignals # {}
  /\ oldSignals \subseteq isSet
  /\ \E n, m \in batch : nstate[n] = "raised" /\ nstate[m] = "submitted"

\* C5: when ParallelNode.run ends with an exception, the node's signal is set,
\* the node's status is CRASHED and the exception is the one wrapped with the
\* node's name.
C5_CrashRecorded ==
  \A n \in nodes :
    (isParallel[n] /\ nstate[n] = "raised") =>
      /\ interrupt[n] \in isSet
      /\ NodeStatus(n) = "CRASHED"
      /\ nodeExc[n] = "Exception @ Node"

\* C6: once execute_multiple_nodes has returned or raised, no member of the
\* batch is running or waiting for a worker.
C6_BatchBlocksUntilAllDone ==
  batchState \in {"returned", "raised"} =>
    \A n \in batch : ~InRun(n) /\ nstate[n] # "submitted"

\* the main-thread node has raised while a background member is still running:
\* the executor block cannot be left yet
C6_Witness ==
  /\ pc = "executor_exit"
  /\ pending # "none"
  /\ MainOf(batch) # 0
  /\ nstate[MainOf(batch)] = "raised"
  /\ \E b \in Background(batch) : InRun(b)

\* C7: once a background member has raised, execute_multiple_nodes does not
\* return normally: when it is over, execute() has ended with an exception,
\* and the main-thread member (if any) is over.
C7_BackgroundFailureSurfaced ==
  (\E b \in Background(batch) : nstate[b] = "raised") =>
    /\ batchState \in {"running", "raised"}
    /\ batchState = "raised" =>
         /\ pc = "raised"
         /\ exc # "none"
         /\ MainOf(batch) # 0 => Finished(MainOf(batch))

\* a batch without main-thread node ended with the exception of a background
\* member, taken from its future
C7_Witness ==
  /\ batchState = "raised"
  /\ MainOf(batch) = 0
  /\ exc = "AttributeError"
  /\ \E b \in batch : nstate[b] = "raised"

\* C8: when the join of a batch whose signal was set is over, the task of
\* every member (a PollingTask or GeneratorFuncTask, say) has returned FINISHED.
C8_CancelledTasksFinished ==
  (batchState \in {"returned", "raised"} /\ batchSignal \in isSet) =>
    \A n \in batch : taskResult[n] = "FINISHED"

\* C9: once the task of a plain Node has raised, execute() is over with that
\* exception and no node is run any more.
C9_PlainFailureAborts ==
  /\ [](PlainFailed => pc = "raised" /\ exc = "TaskException")
  /\ [][PlainFailed =>
          \A m \in nodes :
            /\ runs'[m] <= runs[m]
            /\ nstate'[m] # nstate[m] => nstate'[m] = "idle"]_vars

\* a plain node failed while another plain node of its layer and a node of a
\* later layer were still to be run
C9_Witness ==
  /\ PlainFailed
  /\ pc = "raised"
  /\ todo # {}
  /\ \E m \in nodes : Depth(m) >= 1 /\ nstate[m] = "idle"

\* C10: after a normal return of execute(), Workflow.status is the most severe
\* of the statuses the nodes' tasks returned.
C10_StatusIsMostSevere ==
  pc = "done" =>
    wfStatus = return_most_harsh_status(taskResult)

\* the severity order of the statuses, least severe first
FixedOrder ==
  <<"PENDING", "RUNNING", "SKIP", "FINISHED", "REJECT", "STOPPED", "CRASHED">>

Rank(s) == CHOOSE i \in DOMAIN FixedOrder : FixedOrder[i] = s

\* C12: after a normal return of execute(), a status other than FINISHED that
\* a node's task returned is the node's status, and Workflow.status is at
\* least as severe as it.
C12_NonFinishedStatusPropagates ==
  pc = "done" =>
    \A n \in nodes :
      taskResult[n] \in {"SKIP", "REJECT", "STOPPED"} =>
        /\ NodeStatus(n) = taskResult[n]
        /\ Rank(wfStatus) >= Rank(taskResult[n])

\* C13: return_most_harsh_status returns a member of its input that no other
\* member exceeds in PENDING < RUNNING < SKIP < FINISHED < REJECT < STOPPED <
\* CRASHED, wherever that member stands in the input.
C13_MostSevereInFixedOrder ==
  harshest # "none" =>
    /\ \E i \in DOMAIN statuses : statuses[i] = harshest
    /\ \A j \in DOMAIN statuses : Rank(statuses[j]) <= Rank(harshest)

\* FINISHED, SKIP, RUNNING were aggregated to FINISHED
C13_Witness ==
  /\ statuses = <<"FINISHED", "SKIP", "RUNNING">>
  /\ harshest = "FINISHED"

\* the elements of a sequence
Range(seq) == {seq[i] : i \in DOMAIN seq}
\* the last element of a non-empty sequence
Last(seq) == seq[Len(seq)]
\* seq without its first n elements
Drop(seq, n) == SubSeq(seq, n + 1, Len(seq))
\* TRUE when the storage of the channel is of the given kind
IsSingle == chan.storage.type = "SingleItemStorage"
IsMulti == chan.storage.type = "MultiItemStorage"

\* C14: a single-slot storage holds at most one value; a read returns the value
\* written most recently if that value has not been read yet and None if there
\* is no such value, the storage is empty after the read, and the values
\* written before the most recent one are never returned later.
C14_SingleSlotOverwrite ==
  IsSingle =>
    /\ storage_len(chan.storage) <= 1
    /\ last.op = "read" =>
         /\ is_empty([chan.storage EXCEPT !.items = last.after])
         /\ last.val # None =>
              /\ last.val = Last(written)
              /\ \A i \in 1..(Len(readLog) - 1) : readLog[i] < last.val
         /\ last.val = None =>
              written = <<>> \/ Last(written) \in Range(readLog)

\* two writes without a read between them, then a read: the first value is lost
C14_Witness ==
  /\ IsSingle
  /\ last.op = "read"
  /\ written = <<1, 2>>
  /\ readLog = <<2>>
  /\ last.val = 2
  /\ is_empty(chan.storage)

\* C15: on an unbounded multi-slot storage with one writer and one reader,
\* however their operations interleave, the items read so far followed by the
\* items still queued are exactly the non-None items written, in order; a read
\* of a non-empty queue returns its oldest item.
C15_QueueLossless ==
  (IsMulti /\ chan.storage.maxsize = 0) =>
    /\ written = readLog \o chan.storage.items
    /\ (last.op = "read" /\ last.before # <<>>) =>
         /\ last.val = Head(last.before)
         /\ last.after = Tail(last.before)

\* reads and writes interleaved on an unbounded queue, items still queued
C15_Witness ==
  /\ IsMulti
  /\ chan.storage.maxsize = 0
  /\ chan.read_strategy.type = "SingleReadStrategy"
  /\ readLog = <<1, 2>>
  /\ chan.storage.items = <<3, 4>>
  /\ last.op = "read"
  /\ last.before = <<2, 3, 4>>

\* C16: a MultiReadStrategy.read that finds n items queued returns the first
\* min(chunk_size, n) of them in FIFO order (all n when chunk_size is None, the
\* empty list when n is 0) and removes exactly those from the queue.
C16_MultiReadBatching ==
  (last.op = "mread" /\ last.err = "none") =>
    LET n == Len(last.before)
        k == chan.read_strategy.chunk_size
        m == IF k = None \/ n < k THEN n ELSE k
    IN /\ last.vals = SubSeq(last.before, 1, m)
       /\ SubSeq(last.after, 1, n - m) = Drop(last.before, m)
       /\ Range(last.vals) \cap Range(last.after) = {}

\* chunk_size 2 and five items written in three writes: the fourth read, the
\* seventh operation, returns the empty list after the earlier three reads
\* returned the five items
C16_Witness ==
  /\ chan.read_strategy = MultiReadStrategy(2)
  /\ chan.write_strategy.type = "MultiWriteStrategy"
  /\ written = <<1, 2, 3, 4, 5>>
  /\ readLog = <<1, 2, 3, 4, 5>>
  /\ nOps = 7
  /\ last.op = "mread"
  /\ last.before = <<>>
  /\ last.vals = <<>>

\* C17: reading a storage that holds nothing, single-slot or multi-slot, raises
\* nothing, returns None and leaves the storage empty.
C17_EmptyReadIsNone ==
  (last.op = "read" /\ is_empty([chan.storage EXCEPT !.items = last.before])) =>
    /\ last.err = "none"
    /\ last.val = None
    /\ is_empty([chan.storage EXCEPT !.items = last.after])

\* a queue whose items were all consumed is read once more
C17_Witness ==
  /\ IsMulti
  /\ last.op = "read"
  /\ last.before = <<>>
  /\ written = <<1, 2>>
  /\ readLog = <<1, 2>>
  /\ last.val = None

\* C18: writing None changes nothing in a storage of either kind, a missing
\* sequence given to a MultiWriteStrategy changes nothing either, and None is
\* never stored and never read back as an item.
C18_NoneWriteIsNoOp ==
  /\ (last.op = "write" /\ last.data = None) =>
       (last.after = last.before /\ last.err = "none")
  /\ (last.op = "mwrite" /\ last.missing) =>
       (last.after = last.before /\ last.err = "none")
  /\ None \notin Range(chan.storage.items)
  /\ None \notin Range(readLog)

\* None written onto a single slot that holds a value: the value stays
C18_Witness ==
  /\ IsSingle
  /\ last.op = "write"
  /\ last.data = None
  /\ last.before = <<1>>
  /\ chan.storage.items = <<1>>

\* TRUE when the operation completed last met a full bounded queue
FullWrite ==
  /\ IsMulti
  /\ last.op = "write"
  /\ last.data # None
  /\ chan.storage.maxsize > 0
  /\ Len(last.before) >= chan.storage.maxsize

\* C19: as first stated, a write onto a full bounded multi-slot storage raises
\* nothing to the writer and loses no item: every item written is read or queued.
C19_FullWriteBlocks ==
  (IsMulti /\ chan.storage.maxsize > 0) =>
    /\ last.op \in {"write", "mwrite"} => last.err = "none"
    /\ written = readLog \o chan.storage.items
    /\ storage_len(chan.storage) <= chan.storage.maxsize

\* C19: as the code has it, a write onto a full bounded multi-slot storage
\* raises queue.Full to the writer at once and stores nothing; the items queued
\* stay queued, a write onto a queue that is not full succeeds, and the length
\* never exceeds maxsize.
C19_FullWriteRaises ==
  (IsMulti /\ chan.storage.maxsize > 0) =>
    /\ storage_len(chan.storage) <= chan.storage.maxsize
    /\ FullWrite => (last.err = "Full" /\ last.after = last.before)
    /\ (last.op = "write" /\ last.data # None /\ ~FullWrite) =>
         (last.err = "none" /\ last.after = Append(last.before, last.data))

\* a third item written onto a queue of maxsize 2 that holds two
C19_Witness ==
  /\ FullWrite
  /\ chan.storage.maxsize = 2
  /\ last.before = <<1, 2>>
  /\ last.data = 3
  /\ chan.storage.items = <<1, 2>>

\* C20: Channel construction raises exactly when a multi-item strategy, read or
\* write, is put over a single-slot storage; single-item strategies are accepted
\* over both kinds of storage, and a rejected channel is never operated.
C20_ConstructionValidates ==
  chState # "unbuilt" =>
    /\ chState = "rejected" <=>
         /\ IsSingle
         /\ \/ chan.read_strategy.type = "MultiReadStrategy"
            \/ chan.write_strategy.type = "MultiWriteStrategy"
    /\ chState = "rejected" => (nOps = 0 /\ last.op = "none")

\* a MultiReadStrategy over a single-slot storage was refused
C20_Witness ==
  /\ chState = "rejected"
  /\ IsSingle
  /\ chan.read_strategy.type = "MultiReadStrategy"
  /\ chan.write_strategy.type = "SingleWriteStrategy"

\* what a read of C's outbound channel returns after the execute() that just
\* ended: the value Workflow.result returned if it was read, else the value the
\* channel holds
OutboundValue ==
  IF result.at = execCount THEN result.val
  ELSE storage_read(channels[write_channel[2]].storage).val

\* the producer returns 42, C has an outbound channel and execute() returned
PipelineRan ==
  /\ pc = "done"
  /\ task[1].value = Answer
  /\ write_channel[2] # None

\* the data part of C11: C's func received 42 and the outbound read gives 43
C11_ValueDelivered ==
  PipelineRan => (funcArg[2] = Answer /\ OutboundValue = Answer + 1)

\* C11: for P (OutputFuncTask returning 42) connected through a single-slot
\* channel to C (TransformFuncTask adding 1) with an outbound channel, after
\* execute() the value read from C's outbound channel is 43, C received exactly
\* 42, and Workflow.status is FINISHED.
C11_EndToEndPipeline ==
  /\ C11_ValueDelivered
  /\ PipelineRan => wfStatus = "FINISHED"

\* C21: execute() on a workflow with no nodes ends at once with the ValueError
\* of validate(): the coordinator never enters the sequencer, nothing runs, and
\* Workflow.status keeps the value it had (PENDING, never RUNNING).
C21_EmptyWorkflowRejected ==
  (nodes = {} /\ execCount > 0) =>
    /\ pc = "raised"
    /\ exc = "ValueError: no nodes"
    /\ wfStatus = "PENDING"
    /\ layer = {} /\ batch = {} /\ sorterDone = {}

\* the empty workflow was executed twice
C21_Witness ==
  /\ nodes = {}
  /\ execCount = 2
  /\ pc = "raised"
  /\ wfStatus = "PENDING"

\* C22: the dependency graph is acyclic after every sequence of add_node,
\* connect_dependency, connect and copy_dependencies calls (a call that would
\* close a cycle, a self-edge included, is refused).
C22_GraphStaysAcyclic == is_directed_acyclic_graph(dep)

\* C23: after every sequence of add_node calls no two nodes of the graph bear
\* the same name, and every node of the graph is the one its name resolves to.
C23_NamesUnique ==
  /\ \A i, j \in DOMAIN dep.nodes :
       name[dep.nodes[i]] = name[dep.nodes[j]] => i = j
  /\ \A i \in DOMAIN dep.nodes :
       /\ depNames[name[dep.nodes[i]]] = dep.nodes[i]
       /\ node_to_index(appearances, "dependency", dep.nodes[i]) = i

\* C30: a connect(a, b, channel) that returns appends the dependency edge a->b
\* and, given a channel, makes it a's write_channel and b's read_channel and
\* appends the dataflow edge a->b carrying it; given no channel it leaves the
\* channel bindings of every node and the dataflow graph as they were.
C30_ConnectEffect ==
  [][(call'.op = "connect" /\ call'.err = "none") =>
       LET a == call'.a
           b == call'.b
           ch == call'.ch
       IN /\ dep'.nodes = dep.nodes
          /\ dep'.edges = Append(dep.edges, <<appearances[a].dependency,
                                              appearances[b].dependency>>)
          /\ IF ch # None
               THEN /\ write_channel' = [write_channel EXCEPT ![a] = ch]
                    /\ read_channel' = [read_channel EXCEPT ![b] = ch]
                    /\ df' = [df EXCEPT !.edges =
                                Append(@, <<appearances[a].dataflow,
                                            appearances[b].dataflow, ch>>)]
               ELSE UNCHANGED <<read_channel, write_channel, df>>]_vars

\* two nodes were added and connected with channel 1
C30_Witness ==
  /\ call.op = "connect"
  /\ call.err = "none"
  /\ call.a = 1 /\ call.b = 2 /\ call.ch = 1
  /\ dep.edges = <<<<1, 2>>>>
  /\ df.edges = <<<<1, 2, 1>>>>
  /\ write_channel = <<1, None>>
  /\ read_channel = <<None, 1>>

\* C24: when a run of the task a PollingTask wraps returns a status other than
\* FINISHED, PollingTask.run returns that status at once: the wrapped task was
\* run exactly once and never again, no wait between iterations took place,
\* and the loop ended whatever the stop predicate says.
C24_NonFinishedPropagates ==
  (tk.kind = "Task" /\ tk.status # "FINISHED" /\ calls >= 1) =>
     /\ tpc = "returned"
     /\ ret = tk.status
     /\ calls = 1
     /\ waits = 0

\* a wrapped task returning REJECT was polled with a predicate that never holds
C24_Witness ==
  /\ tk.kind = "Task"
  /\ tk.status = "REJECT"
  /\ stop.never
  /\ ~sig
  /\ tpc = "returned"
  /\ ret = "REJECT"
  /\ calls = 1
  /\ waits = 0

\* C25: PollingTask evaluates its stop conditions before every iteration: the
\* wrapped task is run only in an iteration entered from the loop condition
\* with the stop predicate false and the signal unset, and every run of it is
\* one such iteration; when the loop ends through the condition the predicate
\* or the signal holds and run returns FINISHED. With the signal set as run
\* starts the wrapped task is run 0 times, and with a wrapped task returning
\* FINISHED and a predicate that holds after the k-th run it is run at most k
\* times, and exactly k times when run has returned without the signal.
C25_StopCheckedBeforeEachIteration ==
  /\ [](sig0 => calls = 0)
  /\ []((task_return(tk) = "FINISHED" /\ ~stop.never) => calls <= stop.after)
  /\ []((task_return(tk) = "FINISHED" /\ ~stop.never /\ ~sig
           /\ tpc = "returned") => (calls = stop.after /\ ret = "FINISHED"))
  /\ [][/\ (tpc' = "body" /\ tpc # "body") =>
             (tpc = "check" /\ ~stop_callable /\ ~sig)
        /\ calls' # calls => (tpc = "body" /\ calls' = calls + 1)
        /\ (tpc = "check" /\ tpc' = "returned") =>
             ((stop_callable \/ sig) /\ ret' = "FINISHED")]_vars

\* a task returning FINISHED was polled until the predicate held after its
\* second run
C25_Witness ==
  /\ tk.kind = "Task"
  /\ tk.status = "FINISHED"
  /\ ~stop.never
  /\ stop.after = 2
  /\ ~sig
  /\ tpc = "returned"
  /\ ret = "FINISHED"
  /\ calls = 2
  /\ waits = 2

\* C26: a PollingTask wrapping OutputFuncTask, TransformFuncTask or
\* InputFuncTask whose function returns normally runs it again and again: run
\* has returned only when the stop predicate holds or the interrupt is set.
C26_TemplatesPolledUntilStopped ==
  (tk.kind \in PolledTemplates /\ tpc = "returned") => (stop_callable \/ sig)

\* C27: each of OutputFuncTask, TransformFuncTask, InputFuncTask and
\* ContextFuncTask returns Status.FINISHED from run(ctx) when its user function
\* returned normally.
C27_TemplatesReturnFinished ==
  (tk.kind \in Templates /\ tpc = "returned" /\ calls = 0) => ret = "FINISHED"

\* C28: the status ContextFuncTask.run returns is the one its user function
\* left in ctx.status: RUNNING when the function did not assign it, else the
\* status the function assigned.
C28_ContextStatusReturned ==
  (tk.kind = "ContextFuncTask" /\ tpc = "returned") =>
     /\ ret = ctxStatus
     /\ ctxStatus = IF tk.sets = "untouched" THEN "RUNNING" ELSE tk.sets

\* the items 1..n in the order the routine yields them
FirstItems(n) == [i \in 1..n |-> i]

\* C29 as stated: GeneratorFuncTask looks at the signal before it requests an
\* item, so with the signal already set as run starts no item is requested or
\* written, and run returns FINISHED.
C29_SignalCheckedBeforeRequest ==
  /\ sig0 => (req = 0 /\ out = <<>>)
  /\ tpc = "returned" => ret = "FINISHED"

\* C29 amended: GeneratorFuncTask looks at the signal after each item was
\* written. Every item requested is written, in production order; once the
\* signal is set at most one further item is requested, and it is written
\* before run returns; run returns FINISHED, with every produced item written
\* when the signal was never set, and with exactly the first item written when
\* the signal was set as run started and the routine yields anything.
C29_SignalCheckedAfterWrite ==
  /\ reqAfterSet <= 1
  /\ out = FirstItems(IF tpc = "write" THEN req - 1 ELSE req)
  /\ tpc = "returned" =>
       /\ ret = "FINISHED"
       /\ ~sig => req = genLen
       /\ sig0 => req = (IF genLen = 0 THEN 0 ELSE 1)

\* the signal was set as run started, the routine yields three items, and run
\* returned having written the first
C29_Witness ==
  /\ sig0
  /\ genLen = 3
  /\ tpc = "returned"
  /\ ret = "FINISHED"
  /\ req = 1
  /\ reqAfterSet = 1
  /\ out = <<1>>

\* a Node object with no dependency edge at its index: its only links, if any,
\* are dataflow edges
NoDependencyEdge(o) ==
  \A k \in DOMAIN dep.edges :
     /\ dep.edges[k][1] # appearances[o].dependency
     /\ dep.edges[k][2] # appearances[o].dependency

BoundChannels ==
  {write_channel[o] : o \in NodeObjs} \cup {read_channel[o] : o \in NodeObjs}

\* C32: channels are point-to-point. Whatever connect, connect_dataflow and
\* configure_result_channel calls were made, a channel is the write_channel of
\* at most one node and the read_channel of at most one node.
C32_ChannelsPointToPoint ==
  \A ch \in BoundChannels \ {None} :
     /\ Cardinality({o \in NodeObjs : write_channel[o] = ch}) <= 1
     /\ Cardinality({o \in NodeObjs : read_channel[o] = ch}) <= 1

\* C38: the channel bindings agree with the dataflow graph. For every dataflow
\* edge (a, b, ch), the node at a has ch as its write_channel and the node at b
\* has ch as its read_channel.
C38_BindingsMatchDataflowEdges ==
  \A k \in DOMAIN df.edges :
     /\ write_channel[df.nodes[df.edges[k][1]]] = df.edges[k][3]
     /\ read_channel[df.nodes[df.edges[k][2]]] = df.edges[k][3]

\* C33: replace_node(old_name, new_node) preserves the graph position. When
\* the call returns, new_node is the payload, in both graphs, at the index the
\* node found under old_name had, and has recorded that index; the edges of
\* both graphs are as they were; new_node's name resolves to new_node and
\* old_name resolves to nothing unless it is new_node's name; and the old node
\* is no longer a payload of the dependency graph, so that execute() runs
\* new_node in its place and never runs the old node.
C33_ReplacePreservesPosition ==
  [][(call'.op = "replace_node" /\ call'.err = "none") =>
       LET old == call'.ref
           new == call'.a
           i == appearances[depNames[old]].dependency
           j == appearances[dfNames[old]].dataflow
       IN /\ dep.nodes[i] = depNames[old]
          /\ df.nodes[j] = dfNames[old]
          /\ dep' = [dep EXCEPT !.nodes[i] = new]
          /\ df' = [df EXCEPT !.nodes[j] = new]
          /\ appearances'[new] = [dependency |-> i, dataflow |-> j]
          /\ depNames'[name[new]] = new
          /\ dfNames'[name[new]] = new
          /\ old # name[new] => (depNames'[old] = None /\ dfNames'[old] = None)
          /\ depNames[old] # new =>
               \A k \in DOMAIN dep'.nodes : dep'.nodes[k] # depNames[old]]_vars

\* the value the task of node n gave to ctx.write_callable last in the run
\* that just ended: P writes what its func returns, C what it received plus 1
LastWritten(n) == IF n = 1 THEN task[1].value ELSE funcArg[2] + 1

\* C34: in a workflow whose result node was designated with
\* configure_result_channel(node), Workflow.result read after an execute() that
\* returned normally is the last value the node's task wrote during that run.
C34_ResultIsLastWritten ==
  (pc = "done" /\ result_node # None /\ result.at = execCount) =>
     result.val = LastWritten(result_node)

\* C39: the cancellation signal the task of a plain Node sees is private to
\* that run: it is unset when the task starts, whatever the tasks run before it
\* did to the signal of their own context.
C39_PlainSignalPrivate ==
  [][\A n \in nodes :
       (~isParallel[n] /\ nstate[n] # "running" /\ nstate'[n] = "running") =>
          ctxInterrupt'[n] \notin isSet']_vars

\* C40: when execute() is ended by the exception of a node (the task of a
\* plain Node raised, or a ParallelNode's run raised and the batch surfaced it),
\* the aggregation is not performed and Workflow.status stays RUNNING: it does
\* not become CRASHED.
C40_AbortLeavesStatusRunning ==
  (pc = "raised" /\ \E n \in nodes : nstate[n] = "raised") =>
     /\ exc \in {"TaskException", "AttributeError"}
     /\ wfStatus = "RUNNING"

\* a plain node ran to its end, then a ParallelNode of the batch raised and
\* execute() ended with its exception
C40_Witness ==
  /\ pc = "raised"
  /\ batchState = "raised"
  /\ exc = "AttributeError"
  /\ wfStatus = "RUNNING"
  /\ \E n \in nodes : ~isParallel[n] /\ nstate[n] = "returned"
  /\ \E n \in batch : nstate[n] = "raised"

\* C35: a parallel batch with exactly one main-thread-pinned ParallelNode, be
\* it the pinned node alone, runs the pinned node on the coordinator (it is
\* never handed to the pool) and, no member's task having raised, completes
\* normally.
C35_PinnedBatchCompletes ==
  (Cardinality({n \in batch : run_in_main_thread[n]}) = 1
     /\ batchState \in {"returned", "raised"}
     /\ \A n \in batch : nodeExc[n] # "TaskException") =>
       /\ batchState = "returned"
       /\ \A n \in batch : nstate[n] = "returned"

\* C36: within a layer, every plain Node has run to its end before a
\* ParallelNode of the layer is submitted or started; at most one plain Node is
\* running at a time, on the coordinator, and none while a ParallelNode is
\* submitted or running.
C36_PlainBeforeParallel ==
  /\ \A p \in layer :
       (isParallel[p] /\ nstate[p] # "idle") =>
          \A m \in layer : ~isParallel[m] => nstate[m] = "returned"
  /\ Cardinality({m \in nodes : ~isParallel[m] /\ nstate[m] = "running"}) <= 1
  /\ \A m \in nodes :
       (~isParallel[m] /\ nstate[m] = "running") =>
          /\ pc = "in_node"
          /\ \A p \in nodes : isParallel[p] => ~InRun(p) /\ nstate[p] # "submitted"

\* a layer of two plain nodes and a ParallelNode: both plain nodes returned and
\* the ParallelNode entered its run
C36_Witness ==
  \E m, k, p \in layer :
     /\ m # k
     /\ ~isParallel[m] /\ nstate[m] = "returned"
     /\ ~isParallel[k] /\ nstate[k] = "returned"
     /\ isParallel[p] /\ nstate[p] = "try"

\* C37: once the run of a ParallelNode whose task did not raise is over, run
\* has returned normally and the node's recorded status is FINISHED or the
\* status the task stored in the context: never PENDING or RUNNING.
C37_ParallelStatusRecorded ==
  \A n \in nodes :
    (isParallel[n] /\ Finished(n) /\ nodeExc[n] # "TaskException") =>
      /\ nstate[n] = "returned"
      /\ NodeStatus(n) \notin {"PENDING", "RUNNING"}

====
